---------------------------- MODULE Spec2Model ----------------------------
(***************************************************************************)
(* A model of TrackDrop's library reconciliation engine (re-command):      *)
(* the download-history ledger, the protection evaluator, the rating-      *)
(* driven cleanup pass, the pass triggers and the library matcher.         *)
(*                                                                         *)
(* Strings the code compares character-wise (names, titles, albums) are    *)
(* tuples of one-character strings, so that lower(), `in` and re.split are *)
(* computed rather than assumed.                                           *)
(***************************************************************************)
EXTENDS Integers, Sequences, FiniteSets, TLC

VARIABLES
    history,      \* the ledger file: source name -> list of entries
    lastOp,       \* the last ledger call made (ledger specification)
    opCount,      \* number of ledger calls made so far (bounded)
    library,      \* ids of the tracks the media server has a record of
    ann,          \* annotation table: account -> track id -> rating, starred
    plists,       \* the server's playlists: name -> list of track ids
    dbMode,       \* how the direct read of the server's record store goes
    adminUser,    \* the configured admin_user ("" when not configured)
    apiDown,      \* TRUE when a Subsonic request raises
    evalTrack,    \* the id last passed to _check_song_protection
    evalResult,   \* what that call returned
    disk,         \* the files under music_library_path
    disk0,        \* the files there when the cleanup pass started
    plists0,      \* the playlists as they were when the pass started
    cpc,          \* where process_api_cleanup stands
    chist,        \* its in-memory history, loaded once at its start
    csources,     \* the sources it has still to visit, in key order
    cidx,         \* index of the next entry of the current source's tracks
    cplaylist,    \* existing_playlist and playlist_songs of the current source
    toRemove,     \* tracks_to_remove
    keepIds,      \* tracks_to_keep_ids
    report,       \* what the pass printed for each entry it handled
    faults,       \* TRUE once a file removal or playlist request failed
    inflight,     \* reconciliation passes in flight: user, kind -> how many
    mquery,       \* the track a library search looks for
    mpool,        \* all_candidates of the search, in the order they arrived
    mresult,      \* what the search returned
    nin,          \* the string handed to the normalizer
    nouts,        \* the normalizer's output, and the output for that output
    ppl,          \* the server's playlists the synchronizer works on: name -> ids
    plast,        \* the synchronizer's last call: what was asked, what it returned
    rloc,         \* download pass: where each recommended track's file is
    rledger,      \* download pass: the recommended tracks with a ledger entry
    rmade,        \* download pass: the tracks the engine downloaded, in any run
    rpc,          \* download pass: where the pass stands
    ridx,         \* download pass: index of the recommendation in hand
    rdown,        \* download pass: downloaded_songs_info of this run
    rruns,        \* download pass: runs started so far
    store,        \* the monitored-playlists file: id -> entry
    clock,        \* the wall clock, in hours
    snap,         \* the poller's list of entries, loaded at the tick
    tnow,         \* the poller's "now", taken at the tick
    tpos,         \* index of the entry the poller has in hand
    tpc,          \* where the poller stands
    mload,        \* what the poller's mark_synced loaded
    web,          \* a web request between its load and its save of the file
    attempted,    \* id -> when the poller last queued a sync of it
    hclient,      \* the client whose _make_request_with_retries is running
    hseen,        \* how each attempt of the call went, in order
    hstate,       \* "running", or how the call ended
    mbclock,      \* wall clock of the MusicBrainz lookups, in tenths of a second
    dpc,          \* download -> where its lookup_mbids stands
    dwake,        \* download -> when its current sleep ends
    dtries,       \* download -> attempts made for its current request
    mbreqs,       \* when the last two MusicBrainz requests were issued
    xrec,         \* playlist update: the recommended track of the pass
    xlib,         \* playlist update: the songs a library search answers with, in order
    xpc,          \* playlist update: where the pass stands
    xout,         \* playlist update: how download_track ended for the track
    xids,         \* playlist update: song_ids of update_api_playlists
    xledger,      \* playlist update: the library ids of the ledger entries written
    xpl,          \* playlist update: the server's playlists, name -> ids
    xfault,       \* playlist update: TRUE once a playlist request failed
    skind,        \* status pass: "recs" for process_recommendations, "playlist" for download_playlist
    stotal,       \* status pass: number of tracks of the pass
    sstat,        \* status pass: track_statuses, the status of each track
    scount,       \* status pass: the downloaded, skipped and failed counters
    sidx,         \* status pass: index of the track in hand
    spc,          \* status pass: where the pass stands
    sfile,        \* status pass: what the status file holds
    all_recommendations, \* deduplication: the merged recommendations of every source
    unique_recommendations, \* deduplication: the list the download loop is given
    upc,          \* deduplication: whether the step has run
    navidrome_relative_path, \* path resolver call: the path the ledger recorded
    song_details, \* path resolver call: the track record passed, NoDetails for none
    found_path,   \* path resolver call: what the call returned
    fpc,          \* path resolver call: whether the call has returned
    ghist,        \* debug cleanup: the history the pass loaded
    gsources,     \* debug cleanup: the sources still to process
    gidx,         \* debug cleanup: index of the entry in hand
    remaining_tracks, \* debug cleanup: entries of the current source to keep
    remaining_history, \* debug cleanup: the history to save
    summary,      \* debug cleanup: one line per entry handled
    gpc,          \* debug cleanup: where the pass stands
    phistory,     \* playlist cleanup: the playlist history file
    ptracks,      \* playlist cleanup: the tracks the pass loaded
    pidx,         \* playlist cleanup: index of the track in hand
    premaining,   \* playlist cleanup: remaining_tracks
    plog,         \* playlist cleanup: one line per track handled
    ppc,          \* playlist cleanup: where the pass stands
    centry,       \* track count: the monitored entry in the file
    cattempts,    \* track count: sync attempts made
    cobserved,    \* track count: what the extraction of the last attempt gave
    mfile,        \* monitored file: the list of entries the file holds
    mthread,      \* monitored file: each thread's call, the list it loaded and what it did
    muuid,        \* monitored file: the next fresh entry id
    mremoved,     \* monitored file: ids whose removal returned True
    mdisabled,    \* monitored file: ids whose disabling was saved
    tsong,        \* tag cleanup: the song in hand, its comment, rating and star
    tconf,        \* tag cleanup: the instance's enabled flags and configured comments
    tdone,        \* tag cleanup: what the loop body did with the song
    lthread,      \* scheduler loop: where each thread ever created stands
    lcurrent,     \* scheduler loop: _scheduler_thread, 0 for None
    lrunning,     \* scheduler loop: _scheduler_running
    ltodo,        \* scheduler loop: entries the current pass over the file has still to sync
    lcalls,       \* scheduler loop: start and stop calls made
    llast,        \* scheduler loop: the last call made
    lstopped,     \* scheduler loop: a sync was started while the flag was off
    wlatest,      \* weekly playlist: the week of the latest playlist on the server
    wsaved,       \* weekly playlist: the week named in the history file, 0 for no file
    wpass,        \* weekly playlist: the week a running pass is processing, 0 for none
    wprocessed,   \* weekly playlist: the weeks whose tracks a pass processed to its end
    wpasses,      \* weekly playlist: passes started
    hnames,       \* ledger paths: the usernames of two accounts
    hpaths        \* ledger paths: what get_user_history_path returned for them, <<>> before the calls

ledgerVars == <<history, lastOp, opCount>>
envVars == <<library, ann, plists, dbMode, adminUser, apiDown>>
protVars == <<evalTrack, evalResult>>
cleanVars == <<disk, disk0, plists0, cpc, chist, csources, cidx, cplaylist, toRemove,
               keepIds, report, faults>>

schedVars == <<inflight>>

matchVars == <<mquery, mpool, mresult>>

normVars == <<nin, nouts>>

\* the groups of the first six parts, and of the parts after them
coreVars == <<ledgerVars, envVars, protVars, cleanVars, schedVars, matchVars>>
syncVars == <<ppl, plast>>
resumeVars == <<rloc, rledger, rmade, rpc, ridx, rdown, rruns>>
monVars == <<store, clock, snap, tnow, tpos, tpc, mload, web, attempted>>
retryVars == <<hclient, hseen, hstate>>
mbVars == <<mbclock, dpc, dwake, dtries, mbreqs>>
recVars == <<xrec, xlib, xpc, xout, xids, xledger, xpl, xfault>>
statVars == <<skind, stotal, sstat, scount, sidx, spc, sfile>>
dedupVars == <<all_recommendations, unique_recommendations, upc>>
findVars == <<navidrome_relative_path, song_details, found_path, fpc>>
debugVars == <<ghist, gsources, gidx, remaining_tracks, remaining_history, summary, gpc>>
plVars == <<phistory, ptracks, pidx, premaining, plog, ppc>>
cntVars == <<centry, cattempts, cobserved>>
mpVars == <<mfile, mthread, muuid, mremoved, mdisabled>>
tagVars == <<tsong, tconf, tdone>>
loopVars == <<lthread, lcurrent, lrunning, ltodo, lcalls, llast, lstopped>>
weekVars == <<wlatest, wsaved, wpass, wprocessed, wpasses>>
pathVars == <<hnames, hpaths>>
lateVars == <<monVars, retryVars, mbVars, recVars, statVars, dedupVars, findVars, debugVars, plVars, cntVars, mpVars, tagVars, loopVars, weekVars, pathVars>>
moreVars == <<normVars, syncVars, resumeVars, lateVars>>

vars == <<coreVars, moreVars>>

(***************************************************************************)
(* Character strings                                                       *)
(***************************************************************************)

\* str.lower() on one character
UpperLetters ==
    <<"A", "B", "C", "D", "E", "F", "G", "H", "I", "J", "K", "L", "M",
      "N", "O", "P", "Q", "R", "S", "T", "U", "V", "W", "X", "Y", "Z">>

LowerLetters ==
    <<"a", "b", "c", "d", "e", "f", "g", "h", "i", "j", "k", "l", "m",
      "n", "o", "p", "q", "r", "s", "t", "u", "v", "w", "x", "y", "z">>

LowerChar(c) ==
    IF \E i \in DOMAIN UpperLetters : UpperLetters[i] = c
    THEN LowerLetters[CHOOSE i \in DOMAIN UpperLetters : UpperLetters[i] = c]
    ELSE c

\* str.lower()
Lower(s) == [i \in DOMAIN s |-> LowerChar(s[i])]

\* a in b, for two strings
IsSubstr(a, b) ==
    \E i \in 0..(Len(b) - Len(a)) : \A k \in 1..Len(a) : b[i + k] = a[k]


(***************************************************************************)
(* The media server as the engine sees it                                  *)
(***************************************************************************)

\* the recommendation sources that own a ledger list and a playlist
Sources == {"ListenBrainz", "Last.fm"}

Tracks == {"t1", "t2"}

\* user_nd, the configured admin account, and an account the engine has no
\* credentials for
Accounts == {"primary", "admin", "guest"}
AccountOrder == <<"primary", "admin", "guest">>
UserNd == "primary"

\* what the server knows of each track: artist, title and the file it indexed
TrackArtist(t) == IF t = "t1" THEN <<"a">> ELSE <<"b">>
TrackTitle(t) == IF t = "t1" THEN <<"X">> ELSE <<"y">>
TrackFile(t) == IF t = "t1" THEN "f1" ELSE "f2"

MinRating == 0
MaxRating == 5
RatingValues == MinRating..MaxRating

NoAnnotation == [rating |-> 0, starred |-> FALSE]

WeeklyLB == "ListenBrainz Weekly"
WeeklyLastFm == "Last.fm Weekly"
OldRecsLB == "ListenBrainz Recommendations"
RoadTrip == "Road Trip"
PlaylistOrder == <<WeeklyLB, WeeklyLastFm, OldRecsLB, RoadTrip>>

\* playlist_name_map of process_api_cleanup and source_map of
\* update_api_playlists: the playlist the engine keeps for each source
PlaylistNameOf(src) ==
    CASE src = "ListenBrainz" -> WeeklyLB
      [] src = "Last.fm"      -> WeeklyLastFm
      [] OTHER                -> "Other Weekly"

EnginePlaylists == {PlaylistNameOf(src) : src \in Sources}

\* str.lower() on the playlist names of the model
LowerName(name) ==
    CASE name = WeeklyLB     -> "listenbrainz weekly"
      [] name = WeeklyLastFm -> "last.fm weekly"
      [] name = OldRecsLB    -> "listenbrainz recommendations"
      [] name = RoadTrip     -> "road trip"
      [] OTHER               -> name

\* values of the parts of the state a specification does not use
EnvIdle ==
    /\ library = {}
    /\ ann = [a \in Accounts |-> [t \in Tracks |-> NoAnnotation]]
    /\ plists = <<>>
    /\ dbMode = "absent"
    /\ adminUser = ""
    /\ apiDown = FALSE

ProtIdle ==
    /\ evalTrack = "none"
    /\ evalResult = [status |-> "none", protected |-> FALSE, reasons |-> <<>>, max_rating |-> 0]

NoPlaylist == [exists |-> FALSE, name |-> "", songs |-> <<>>]

CleanIdle ==
    /\ disk = {}
    /\ disk0 = {}
    /\ plists0 = <<>>
    /\ cpc = "idle"
    /\ chist = <<>>
    /\ csources = <<>>
    /\ cidx = 0
    /\ cplaylist = NoPlaylist
    /\ toRemove = <<>>
    /\ keepIds = <<>>
    /\ report = <<>>
    /\ faults = FALSE

\* the web users, and the ways a pass gets started: "download" is the
\* trackdrop.py subprocess of the download triggers, "cleanup" a cleanup run
\* in a request thread, "sync" the thread of the manual sync endpoint,
\* "poll" a sync made by the scheduler thread
Users == {"u1", "u2"}
PassKinds == {"download", "cleanup", "sync", "poll"}

SchedIdle == inflight = [u \in Users |-> [k \in PassKinds |-> 0]]

MatchIdle ==
    /\ mquery = [artist |-> <<>>, title |-> <<>>, album |-> <<>>, albumGiven |-> FALSE]
    /\ mpool = <<>>
    /\ mresult = [status |-> "pending", pick |-> 0, score |-> 0]

NormIdle == nin = <<>> /\ nouts = <<>>

SyncIdle == ppl = <<>> /\ plast = [op |-> "none", ids |-> <<>>, ok |-> FALSE]

\* the recommendations of a download pass, in the order of the list
Recs == <<"r1", "r2">>

ResumeIdle ==
    /\ rloc = [i \in DOMAIN Recs |-> "none"]
    /\ rledger = {}
    /\ rmade = {}
    /\ rpc = "idle"
    /\ ridx = 0
    /\ rdown = {}
    /\ rruns = 0

\* the ids of the monitored playlists, in the order the file lists them
Pids == {"p1", "p2"}
Order == <<"p1", "p2">>

\* last_synced of an entry that was never synced
Never == -1

NoWeb == [kind |-> "none", pid |-> "", val |-> FALSE, loaded |-> <<>>]

MonIdle ==
    /\ store = [p \in Pids |-> [enabled |-> TRUE, interval |-> 1, last |-> Never]]
    /\ clock = 0
    /\ snap = <<>>
    /\ tnow = 0
    /\ tpos = 0
    /\ tpc = "sleep"
    /\ mload = <<>>
    /\ web = NoWeb
    /\ attempted = [p \in Pids |-> Never]

RetryIdle ==
    /\ hclient = "none"
    /\ hseen = <<>>
    /\ hstate = "running"

\* the downloads that may run at the same time
Downloads == {"d1", "d2"}

MbIdle ==
    /\ mbclock = 0
    /\ dpc = [d \in Downloads |-> "idle"]
    /\ dwake = [d \in Downloads |-> 0]
    /\ dtries = [d \in Downloads |-> 0]
    /\ mbreqs = <<>>

RecIdle ==
    /\ xrec = <<>>
    /\ xlib = <<>>
    /\ xpc = "idle"
    /\ xout = "none"
    /\ xids = <<>>
    /\ xledger = {}
    /\ xpl = <<>>
    /\ xfault = FALSE

StatIdle ==
    /\ skind = "none"
    /\ stotal = 0
    /\ sstat = <<>>
    /\ scount = [down |-> 0, skip |-> 0, fail |-> 0]
    /\ sidx = 0
    /\ spc = "idle"
    /\ sfile = [status |-> "none", down |-> 0, skip |-> 0, fail |-> 0]

DedupIdle ==
    /\ all_recommendations = <<>>
    /\ unique_recommendations = <<>>
    /\ upc = "idle"

FindIdle ==
    /\ navidrome_relative_path = ""
    /\ song_details = [found |-> FALSE, id |-> "", title |-> <<>>, path |-> "",
                       userRating |-> 0, starred |-> FALSE]
    /\ found_path = ""
    /\ fpc = "idle"

DebugIdle ==
    /\ ghist = <<>>
    /\ gsources = <<>>
    /\ gidx = 0
    /\ remaining_tracks = <<>>
    /\ remaining_history = <<>>
    /\ summary = <<>>
    /\ gpc = "idle"

PlIdle ==
    /\ phistory = [exists |-> FALSE, tracks |-> <<>>]
    /\ ptracks = <<>>
    /\ pidx = 0
    /\ premaining = <<>>
    /\ plog = <<>>
    /\ ppc = "idle"

CntIdle ==
    /\ centry = [exists |-> FALSE, last_synced |-> 0, last_track_count |-> 0]
    /\ cattempts = 0
    /\ cobserved = [kind |-> "none", count |-> 0, download |-> "none"]

MpIdle ==
    /\ mfile = <<>>
    /\ mthread = <<>>
    /\ muuid = 0
    /\ mremoved = {}
    /\ mdisabled = {}

TagIdle ==
    /\ tsong = [comment |-> "", userRating |-> 0, starred |-> FALSE]
    /\ tconf = [listenbrainz_enabled |-> FALSE, lastfm_enabled |-> FALSE,
                llm_enabled |-> FALSE, album_comment |-> FALSE, llm_comment |-> FALSE]
    /\ tdone = "idle"

LoopIdle ==
    /\ lthread = <<>>
    /\ lcurrent = 0
    /\ lrunning = FALSE
    /\ ltodo = <<>>
    /\ lcalls = 0
    /\ llast = "none"
    /\ lstopped = FALSE

WeekIdle ==
    /\ wlatest = 0
    /\ wsaved = 0
    /\ wpass = 0
    /\ wprocessed = {}
    /\ wpasses = 0

PathIdle ==
    /\ hnames = <<>>
    /\ hpaths = <<>>

LateIdle == MonIdle /\ RetryIdle /\ MbIdle /\ RecIdle /\ StatIdle /\ DedupIdle /\ FindIdle /\ DebugIdle /\ PlIdle /\ CntIdle /\ MpIdle /\ TagIdle /\ LoopIdle /\ WeekIdle /\ PathIdle

MoreIdle == NormIdle /\ SyncIdle /\ ResumeIdle /\ LateIdle

NotLedger == <<envVars, protVars, cleanVars, schedVars, matchVars, moreVars>>
NotProt == <<ledgerVars, envVars, cleanVars, schedVars, matchVars, moreVars>>

(***************************************************************************)
(* Download history ledger                                                 *)
(***************************************************************************)

\* Bound of the ledger specification: calls made in one behaviour.
MaxOps == 3

LedgerArtists == {<<"a">>, <<"A">>, <<"b">>}
LedgerTitles == {<<"x">>, <<"X">>}
\* what the library reports for a downloaded file: its id and its path
LedgerFiles == {[id |-> "t1", path |-> "f1"], [id |-> "t2", path |-> "f2"]}

\* the duplicate test of add_to_download_history and the filter test of
\* remove_from_download_history: both fields compared after lower()
SameTrack(e, artist, title) ==
    /\ Lower(e.artist) = Lower(artist)
    /\ Lower(e.title) = Lower(title)

\* _load_download_history: a missing file reads as the empty dict
HistoryOf(h, src) == IF src \in DOMAIN h THEN h[src] ELSE <<>>

\* the list with entry i's file_path replaced
RefreshPath(list, i, path) ==
    [list EXCEPT ![i] = [@ EXCEPT !.file_path = path]]

AddAlwaysAppends(h, src, entry) ==
    [s \in DOMAIN h \cup {src} |->
        IF s = src THEN Append(HistoryOf(h, src), entry) ELSE h[s]]

\* add_to_download_history: the first entry with the same lowered artist and
\* title gets its file_path refreshed; otherwise the entry is appended
AddToHistory(h, src, entry) ==
    LET list == HistoryOf(h, src)
        hits == {i \in DOMAIN list : SameTrack(list[i], entry.artist, entry.title)}
        first == CHOOSE i \in hits : \A j \in hits : i <= j
    IN  [s \in DOMAIN h \cup {src} |->
            IF s # src THEN h[s]
            ELSE IF hits # {} THEN RefreshPath(list, first, entry.file_path)
            ELSE Append(list, entry)]

\* the list comprehension of remove_from_download_history
FilterOut(list, artist, title) ==
    SelectSeq(list, LAMBDA e : ~SameTrack(e, artist, title))

\* remove_from_download_history: an unknown source leaves the file alone
RemoveFromHistory(h, src, artist, title) ==
    IF src \notin DOMAIN h THEN h
    ELSE [h EXCEPT ![src] = FilterOut(h[src], artist, title)]

NoOp == [kind |-> "none"]

\* a call of add_to_download_history
Add(src, artist, title, id, path) ==
    /\ opCount < MaxOps
    /\ LET entry == [artist |-> artist, title |-> title,
                     navidrome_id |-> id, file_path |-> path]
           old == {e \in {HistoryOf(history, src)[i] : i \in DOMAIN HistoryOf(history, src)} :
                      SameTrack(e, artist, title)}
       IN  /\ history' = AddToHistory(history, src, entry)
           /\ lastOp' = [kind |-> "add", source |-> src, artist |-> artist,
                         title |-> title, file_path |-> path,
                         oldPaths |-> {e.file_path : e \in old}]
    /\ opCount' = opCount + 1
    /\ UNCHANGED NotLedger

\* a call of remove_from_download_history
Remove(src, artist, title) ==
    /\ opCount < MaxOps
    /\ history' = RemoveFromHistory(history, src, artist, title)
    /\ lastOp' = [kind |-> "remove", source |-> src, artist |-> artist, title |-> title]
    /\ opCount' = opCount + 1
    /\ UNCHANGED NotLedger

LedgerInit ==
    /\ history = <<>>
    /\ lastOp = NoOp
    /\ opCount = 0
    /\ EnvIdle
    /\ ProtIdle
    /\ CleanIdle
    /\ SchedIdle
    /\ MatchIdle
    /\ MoreIdle

LedgerNext ==
    \/ \E src \in Sources, a \in LedgerArtists, t \in LedgerTitles,
          f \in LedgerFiles : Add(src, a, t, f.id, f.path)
    \/ \E src \in Sources, a \in LedgerArtists, t \in LedgerTitles : Remove(src, a, t)

SpecLedger == LedgerInit /\ [][LedgerNext]_vars

\* the entries of a source that carry the given key
Matching(src, artist, title) ==
    {i \in DOMAIN HistoryOf(history, src) :
        SameTrack(HistoryOf(history, src)[i], artist, title)}

(* C7: starting from the empty ledger, after any sequence of Add and Remove
   calls every source holds at most one entry per (lowered artist, lowered
   title); and right after an Add the source holds exactly one entry with
   the added key, whose file_path is the path passed to that Add. *)
C7_LedgerUpsert ==
    /\ \A src \in DOMAIN history : \A i, j \in DOMAIN history[src] :
          SameTrack(history[src][i], history[src][j].artist, history[src][j].title)
              => i = j
    /\ lastOp.kind = "add" =>
          /\ Cardinality(Matching(lastOp.source, lastOp.artist, lastOp.title)) = 1
          /\ \A i \in Matching(lastOp.source, lastOp.artist, lastOp.title) :
                history[lastOp.source][i].file_path = lastOp.file_path

\* an Add that found an entry of the same key recorded under another path
C7_Witness ==
    /\ lastOp.kind = "add"
    /\ lastOp.oldPaths # {}
    /\ lastOp.file_path \notin lastOp.oldPaths

(***************************************************************************)
(* Protection evaluator: NavidromeAPI._check_song_protection               *)
(***************************************************************************)

Max(a, b) == IF a >= b THEN a ELSE b

\* a rating at or above this protects the track
ProtectRating == 4
\* what a star counts as in max_rating
StarRating == 5

\* recommendation_playlist_names, as written in _check_song_protection
RecommendationPlaylistNames ==
    {"listenbrainz recommendations", "last.fm recommendations", "llm recommendations"}

\* result = {'protected': False, 'reasons': [], 'max_rating': 0}; status tells
\* a returned result from a call that raised and from no call made yet
EmptyResult == [status |-> "returned", protected |-> FALSE, reasons |-> <<>>, max_rating |-> 0]
Raised == [EmptyResult EXCEPT !.status = "raised"]
NoResult == [EmptyResult EXCEPT !.status = "none"]

Protect(res, kind, who, rating) ==
    [res EXCEPT !.protected = TRUE,
                !.reasons = Append(@, [kind |-> kind, who |-> who, rating |-> rating])]

\* one row of "SELECT user_id, rating, starred, starred_at FROM annotation"
AnnotationRow(res, who, row) ==
    LET r1 == IF row.rating >= ProtectRating
              THEN Protect(res, "rated", who, row.rating) ELSE res
        r2 == [r1 EXCEPT !.max_rating = Max(@, row.rating)]
    IN  IF row.starred
        THEN [Protect(r2, "starred", who, 0) EXCEPT !.max_rating = Max(@, StarRating)]
        ELSE r2

OnlyPrimaryRows == <<UserNd>>

\* the accounts whose annotation rows the query returns: it has no user
\* filter, so every account's row is read (in an order SQLite chooses; the
\* model fixes one)
AnnotationRowOrder == AccountOrder

RECURSIVE AnnotationRows(_, _, _)
AnnotationRows(res, song, i) ==
    IF i > Len(AnnotationRowOrder) THEN res
    ELSE AnnotationRows(
            AnnotationRow(res, AnnotationRowOrder[i], ann[AnnotationRowOrder[i]][song]),
            song, i + 1)

\* the rows of "playlist JOIN playlist_tracks" for one playlist: one per
\* place the track holds in it
Occurrences(name, song) ==
    IF name \in DOMAIN plists
    THEN Cardinality({k \in DOMAIN plists[name] : plists[name][k] = song})
    ELSE 0

RECURSIVE PlaylistRows(_, _, _)
PlaylistRows(res, song, i) ==
    IF i > Len(PlaylistOrder) THEN res
    ELSE LET name == PlaylistOrder[i]
             n == Occurrences(name, song)
             hit == n > 0 /\ LowerName(name) \notin RecommendationPlaylistNames
             next == IF hit
                     THEN [res EXCEPT !.protected = TRUE,
                              !.reasons = @ \o [k \in 1..n |->
                                  [kind |-> "playlist", who |-> name, rating |-> 0]]]
                     ELSE res
         IN  PlaylistRows(next, song, i + 1)

\* the None of _get_song_details
NoDetails == [found |-> FALSE, id |-> "", title |-> <<>>, path |-> "",
              userRating |-> 0, starred |-> FALSE]

\* _get_song_details for one account: the song's record with that account's
\* userRating and starred, None when the server has no such song
SongDetails(song, account) ==
    IF song \in library
    THEN [found |-> TRUE, id |-> song, title |-> TrackTitle(song),
          path |-> TrackFile(song), userRating |-> ann[account][song].rating,
          starred |-> ann[account][song].starred]
    ELSE NoDetails

\* the fallback block protecting on any rating
FallbackAccountAnyRating(res, who, details) ==
    IF ~details.found THEN res
    ELSE LET r1 == IF details.userRating >= MinRating
                   THEN Protect(res, "rated", who, details.userRating) ELSE res
         IN  [r1 EXCEPT !.max_rating = Max(@, details.userRating)]

\* the block the fallback runs for one account's details
FallbackAccount(res, who, details) ==
    IF ~details.found THEN res
    ELSE LET r1 == IF details.starred
                   THEN [Protect(res, "starred", who, 0)
                            EXCEPT !.max_rating = Max(@, StarRating)]
                   ELSE res
             r2 == IF details.userRating >= ProtectRating
                   THEN Protect(r1, "rated", who, details.userRating) ELSE r1
         IN  [r2 EXCEPT !.max_rating = Max(@, details.userRating)]

\* the fallback over the Subsonic API: user_nd, then admin_user when it is
\* configured and another account; a failing request raises out of the call
Fallback(res, song) ==
    IF apiDown THEN Raised
    ELSE LET r1 == FallbackAccount(res, UserNd, SongDetails(song, UserNd))
         IN  IF adminUser # "" /\ adminUser # UserNd
             THEN FallbackAccount(r1, adminUser, SongDetails(song, adminUser))
             ELSE r1

\* _check_song_protection. dbMode "ok": both queries answer and the result is
\* returned; "playlist_query_fails": the second query raises, and the fallback
\* goes on from the result the first query left; "absent": no readable store
CheckSongProtection(song) ==
    CASE dbMode = "ok" ->
            PlaylistRows(AnnotationRows(EmptyResult, song, 1), song, 1)
      [] dbMode = "playlist_query_fails" ->
            Fallback(AnnotationRows(EmptyResult, song, 1), song)
      [] OTHER -> Fallback(EmptyResult, song)

DbModes == {"ok", "playlist_query_fails", "absent"}
AdminUsers == {"", "primary", "admin"}
ProtTrack == "t1"
ProtPlaylists == {WeeklyLB, OldRecsLB, RoadTrip}

\* the result of one Evaluate call
Evaluate(song) ==
    /\ evalResult.status = "none"
    /\ evalTrack' = song
    /\ evalResult' = CheckSongProtection(song)
    /\ UNCHANGED NotProt

ProtInit ==
    /\ library \in SUBSET {ProtTrack}
    /\ \E f \in [Accounts -> [rating : RatingValues, starred : BOOLEAN]] :
          ann = [a \in Accounts |->
                    [t \in Tracks |-> IF t = ProtTrack THEN f[a] ELSE NoAnnotation]]
    /\ plists \in [ProtPlaylists -> {<<>>, <<ProtTrack>>}]
    /\ dbMode \in DbModes
    /\ adminUser \in AdminUsers
    /\ apiDown \in BOOLEAN
    /\ ProtIdle
    /\ CleanIdle
    /\ SchedIdle
    /\ MatchIdle
    /\ MoreIdle
    /\ history = <<>>
    /\ lastOp = NoOp
    /\ opCount = 0

ProtNext == Evaluate(ProtTrack)

SpecProtect == ProtInit /\ [][ProtNext]_vars

Returned == evalResult.status = "returned"

\* the accounts whose signals the call looked at: every account when the
\* annotation query answered, else user_nd and a distinct admin_user, each
\* only when the server returned the song for it
Examined(a) ==
    \/ dbMode \in {"ok", "playlist_query_fails"}
    \/ /\ evalTrack \in library
       /\ a = UserNd \/ (a = adminUser /\ adminUser # "" /\ adminUser # UserNd)

RatedFiveBy(a) == ann[a][evalTrack].rating = MaxRating

(* C4 as stated: whenever any one of the accounts rated the track 5, the
   result is protected with max_rating 5, whichever account it was. *)
C4_AnyAccountFive ==
    (Returned /\ evalTrack \in library /\ \E a \in Accounts : RatedFiveBy(a))
        => evalResult.protected /\ evalResult.max_rating = MaxRating

(* C4 amended: whenever an account whose signals the call examined rated the
   track 5 (every account when the record store was read; on the fallback
   only user_nd and a distinct admin_user), the result is protected with
   max_rating 5, whatever the other accounts' ratings. *)
C4_ExaminedAccountFive ==
    (Returned /\ \E a \in Accounts : RatedFiveBy(a) /\ Examined(a))
        => evalResult.protected /\ evalResult.max_rating = MaxRating

\* the record store was read, the guest account alone rated 5 and the
\* engine's own account rated 1
C4_Witness ==
    /\ Returned
    /\ dbMode = "ok"
    /\ RatedFiveBy("guest")
    /\ ann[UserNd][evalTrack].rating = 1
    /\ ann["admin"][evalTrack].rating = 0
    /\ evalResult.protected
    /\ evalResult.max_rating = MaxRating

\* the playlists that hold the evaluated track
PlaylistsOf(song) == {n \in DOMAIN plists : Occurrences(n, song) > 0}

\* some examined account rated >= 4 or starred, or the track is in a playlist
\* that is not one of the engine's own
ProtectionSignal ==
    \/ \E a \in Accounts :
          /\ Examined(a)
          /\ ann[a][evalTrack].rating >= ProtectRating \/ ann[a][evalTrack].starred
    \/ PlaylistsOf(evalTrack) \ EnginePlaylists # {}

(* C5: every returned result has protected true exactly when its reasons are
   not empty, and exactly when an examined account rated >= 4 or starred the
   track or the track is in a playlist other than the engine's own. *)
C5_ProtectedIffSignal ==
    Returned =>
        /\ evalResult.protected <=> (evalResult.reasons # <<>>)
        /\ evalResult.protected <=> ProtectionSignal

(* C6: when the record store is unreachable, a track that is in a playlist
   other than the engine's recommendation playlists is reported protected
   with a playlist reason. *)
C6_FallbackChecksPlaylists ==
    (Returned /\ dbMode = "absent" /\ evalTrack \in library
        /\ Occurrences(RoadTrip, evalTrack) > 0)
        => /\ evalResult.protected
           /\ \E k \in DOMAIN evalResult.reasons : evalResult.reasons[k].kind = "playlist"

(***************************************************************************)
(* Path resolver: NavidromeAPI._find_actual_song_path                      *)
(***************************************************************************)

\* The files the model knows: f1 and f2 are the files of t1 and t2, fu is a
\* file the user put there. All three lie in one artist/album directory.
Files == {"f1", "f2", "fu"}
NoFile == ""
\* music_library_path itself, a directory
LibraryRoot == "/"

FileDir(f) == "d1"
FileName(f) ==
    CASE f = "f1" -> <<"x">>
      [] f = "f2" -> <<"y">>
      [] OTHER    -> <<"x", "y">>

\* candidates, de-duplicated in order: the path the server reports, then the
\* path the ledger recorded
PathCandidates(relPath, details) ==
    LET api == IF details.found /\ details.path # "" THEN <<details.path>> ELSE <<>>
        rel == IF relPath # "" /\ (api = <<>> \/ api[1] # relPath)
               THEN <<relPath>> ELSE <<>>
    IN  api \o rel

\* first loop: the first candidate that exists under the library
DirectHit(cands) ==
    LET hits == {i \in DOMAIN cands : cands[i] \in disk}
    IN  IF hits = {} THEN NoFile
        ELSE cands[CHOOSE i \in hits : \A j \in hits : i <= j]

\* what the scan of one artist/album directory may return: the only audio
\* file there, else a file whose lowered name contains the lowered title
\* (the first in os.listdir order, which is any of them)
ScanDir(dir, details) ==
    LET audio == {f \in disk : FileDir(f) = dir}
    IN  IF Cardinality(audio) = 1 THEN audio
        ELSE {f \in audio : /\ details.found
                             /\ details.title # <<>>
                             /\ IsSubstr(Lower(details.title), Lower(FileName(f)))}

RECURSIVE ScanCandidates(_, _, _)
ScanCandidates(cands, details, i) ==
    IF i > Len(cands) THEN {}
    ELSE LET found == ScanDir(FileDir(cands[i]), details)
         IN  IF found # {} THEN found ELSE ScanCandidates(cands, details, i + 1)

\* _find_actual_song_path_fallback: the renaming variants it tries name no
\* file of the model; an empty path joins to the library root, which exists
PathFallback(relPath) == IF relPath = "" THEN LibraryRoot ELSE NoFile

\* the paths _find_actual_song_path may return
ResolveOutcomes(relPath, details) ==
    LET cands == PathCandidates(relPath, details)
        scan == ScanCandidates(cands, details, 1)
    IN  IF DirectHit(cands) # NoFile THEN {DirectHit(cands)}
        ELSE IF scan # {} THEN scan
        ELSE {PathFallback(relPath)}

\* os.path.exists, and os.path.isfile, for a resolved path
PathExists(path) == path \in disk \/ path = LibraryRoot
IsFile(path) == path \in disk

(***************************************************************************)
(* Playlist synchronizer: NavidromeAPI._update_playlist                    *)
(***************************************************************************)

UpdateOutcomes == {"ok", "read_fails", "remove_fails", "add_fails"}

\* _update_playlist: read the current songs (a failed read gives []), remove
\* them all if there are any, then send song_ids with createPlaylist if there
\* are any; a failed removal or sending ends the call where it stands. The
\* server's createPlaylist with a playlistId sets the playlist's songs.
UpdatePlaylist(pl, name, ids, outcome) ==
    LET current == IF outcome = "read_fails" THEN <<>> ELSE pl[name]
    IN  IF current # <<>> /\ outcome = "remove_fails" THEN pl
        ELSE LET emptied == IF current # <<>> THEN [pl EXCEPT ![name] = <<>>] ELSE pl
             IN  IF ids = <<>> THEN emptied
                 ELSE IF outcome = "add_fails" THEN emptied
                 ELSE [pl EXCEPT ![name] = ids]

\* what _update_playlist returns
UpdateReturns(pl, name, ids, outcome) ==
    LET current == IF outcome = "read_fails" THEN <<>> ELSE pl[name]
    IN  /\ ~(current # <<>> /\ outcome = "remove_fails")
        /\ ~(ids # <<>> /\ outcome = "add_fails")

(***************************************************************************)
(* Cleanup pass: NavidromeAPI.process_api_cleanup                          *)
(***************************************************************************)

\* list(history.keys()): the sources in the order the file holds them
SourceOrder == <<"ListenBrainz", "Last.fm">>
KeysOf(h) == SelectSeq(SourceOrder, LAMBDA src : src \in DOMAIN h)

CurrentSource == Head(csources)
CurrentTracks == chist[CurrentSource]
CurrentTrack == CurrentTracks[cidx]

Line(track, what) ==
    [source |-> CurrentSource, id |-> track.navidrome_id, artist |-> track.artist,
     title |-> track.title, what |-> what]

NotClean == <<ledgerVars, envVars, protVars, schedVars, matchVars, moreVars>>

\* load the history; an empty one ends the pass at once
CleanupStart ==
    /\ cpc = "idle"
    /\ chist' = history
    /\ csources' = KeysOf(history)
    /\ cpc' = IF DOMAIN history = {} THEN "done" ELSE "source"
    /\ UNCHANGED <<disk, disk0, plists0, cidx, cplaylist, toRemove, keepIds, report, faults>>
    /\ UNCHANGED NotClean

\* the head of the loop over the sources: a source without tracks is
\* skipped; else its playlist is looked up (a failed request reads as no
\* playlist) and the loop over its tracks starts
CleanupSource(lookupOk) ==
    /\ cpc = "source"
    /\ csources # <<>>
    /\ IF CurrentTracks = <<>>
       THEN /\ lookupOk
            /\ csources' = Tail(csources)
            /\ UNCHANGED <<cpc, cidx, cplaylist, toRemove, keepIds, faults>>
       ELSE /\ cplaylist' =
                  IF lookupOk /\ PlaylistNameOf(CurrentSource) \in DOMAIN plists
                  THEN [exists |-> TRUE, name |-> PlaylistNameOf(CurrentSource),
                        songs |-> plists[PlaylistNameOf(CurrentSource)]]
                  ELSE NoPlaylist
            /\ faults' = (faults \/ ~lookupOk)
            /\ cidx' = 1
            /\ toRemove' = <<>>
            /\ keepIds' = <<>>
            /\ cpc' = "entries"
            /\ UNCHANGED csources
    /\ UNCHANGED <<disk, disk0, plists0, chist, report>>
    /\ UNCHANGED NotClean

\* every source visited: the summary is printed and the pass ends
CleanupEnd ==
    /\ cpc = "source"
    /\ csources = <<>>
    /\ cpc' = "done"
    /\ UNCHANGED <<disk, disk0, plists0, chist, csources, cidx, cplaylist, toRemove,
                   keepIds, report, faults>>
    /\ UNCHANGED NotClean

AtEntry == cpc = "entries" /\ cidx <= Len(CurrentTracks)

\* _get_song_details with the entry's id; no id, no request
EntryDetails ==
    IF CurrentTrack.navidrome_id # ""
    THEN SongDetails(CurrentTrack.navidrome_id, UserNd) ELSE NoDetails

NextEntry(what) ==
    /\ toRemove' = Append(toRemove, CurrentTrack)
    /\ report' = Append(report, Line(CurrentTrack, what))
    /\ cidx' = cidx + 1

\* the getSong request of _get_song_details fails: raise_for_status or the
\* connection error leaves _get_song_details and process_api_cleanup, which
\* catch nothing; what the loop decided so far stays in its local lists
EntryLookupRaises ==
    /\ AtEntry
    /\ CurrentTrack.navidrome_id # ""
    /\ cpc' = "aborted"
    /\ faults' = TRUE
    /\ UNCHANGED <<disk, disk0, plists0, chist, csources, cidx, cplaylist, toRemove,
                   keepIds, report>>
    /\ UNCHANGED NotClean

\* the server has no such song: the entry is queued for removal
EntryGone ==
    /\ AtEntry
    /\ ~EntryDetails.found
    /\ NextEntry("gone")
    /\ UNCHANGED <<disk, disk0, plists0, cpc, chist, csources, cplaylist, keepIds, faults>>
    /\ UNCHANGED NotClean

\* the song is protected: file kept, entry queued for removal, id kept
EntryKept ==
    /\ AtEntry
    /\ EntryDetails.found
    /\ CheckSongProtection(CurrentTrack.navidrome_id).protected
    /\ NextEntry("kept")
    /\ keepIds' = Append(keepIds, CurrentTrack.navidrome_id)
    /\ UNCHANGED <<disk, disk0, plists0, cpc, chist, csources, cplaylist, faults>>
    /\ UNCHANGED NotClean

\* the song is not protected: the resolved path is deleted when it exists
\* and is a file (os.remove may fail); the entry is queued for removal in
\* every case
EntryRelease(path, removeOk) ==
    /\ AtEntry
    /\ EntryDetails.found
    /\ ~CheckSongProtection(CurrentTrack.navidrome_id).protected
    /\ path \in ResolveOutcomes(CurrentTrack.file_path, EntryDetails)
    /\ IF path # NoFile /\ PathExists(path)
       THEN IF IsFile(path) /\ removeOk
            THEN /\ disk' = disk \ {path}
                 /\ NextEntry("deleted")
                 /\ UNCHANGED faults
            ELSE /\ NextEntry("not_deleted")
                 /\ faults' = (faults \/ IsFile(path))
                 /\ UNCHANGED disk
       ELSE /\ removeOk
            /\ NextEntry("file_not_found")
            /\ UNCHANGED <<disk, faults>>
    /\ UNCHANGED <<disk0, plists0, cpc, chist, csources, cplaylist, keepIds>>
    /\ UNCHANGED NotClean

\* the removal loop left out: the ledger file stays as it was
RemoveNothing(h, src, tracks, i) == h

\* remove_from_download_history for each queued track, in order
RECURSIVE RemoveAll(_, _, _, _)
RemoveAll(h, src, tracks, i) ==
    IF i > Len(tracks) THEN h
    ELSE RemoveAll(RemoveFromHistory(h, src, tracks[i].artist, tracks[i].title),
                   src, tracks, i + 1)

IdsOf(tracks) == {tracks[i].navidrome_id : i \in DOMAIN tracks}
Elems(seq) == {seq[i] : i \in DOMAIN seq}

\* new_song_ids without its first branch: only the kept ids
NewSongIdsKeptOnly(songs, tracks, keep) ==
    SelectSeq(songs, LAMBDA id : id \in Elems(keep))

\* new_song_ids: the playlist's songs that are not tracked, or are kept
NewSongIds(songs, tracks, keep) ==
    SelectSeq(songs, LAMBDA id : id \notin IdsOf(tracks) \/ id \in Elems(keep))

\* after the last track of a source: the queued entries leave the ledger
\* file and the source's playlist, when it was found with songs, is rebuilt
CleanupFinishSource(outcome) ==
    /\ cpc = "entries"
    /\ cidx > Len(CurrentTracks)
    /\ history' = RemoveAll(history, CurrentSource, toRemove, 1)
    /\ IF cplaylist.exists /\ cplaylist.songs # <<>>
       THEN /\ plists' = UpdatePlaylist(plists, cplaylist.name,
                            NewSongIds(cplaylist.songs, CurrentTracks, keepIds), outcome)
            /\ faults' = (faults \/ outcome # "ok")
       ELSE /\ outcome = "ok"
            /\ UNCHANGED <<plists, faults>>
    /\ csources' = Tail(csources)
    /\ cpc' = "source"
    /\ UNCHANGED <<disk, disk0, plists0, chist, cidx, cplaylist, toRemove, keepIds, report>>
    /\ UNCHANGED <<lastOp, opCount, library, ann, dbMode, adminUser, apiDown, protVars,
                   schedVars, matchVars, moreVars>>

Entry(t) ==
    [artist |-> TrackArtist(t), title |-> TrackTitle(t), navidrome_id |-> t,
     file_path |-> TrackFile(t)]

\* an entry written without a library id
EntryNoId(t) == [Entry(t) EXCEPT !.navidrome_id = ""]

\* the ledgers a pass starts from
CleanLedgers ==
    { <<>>,
      [src \in {"ListenBrainz"} |-> <<EntryNoId("t1"), Entry("t2")>>],
      [src \in {"ListenBrainz"} |-> <<Entry("t1"), Entry("t2")>>],
      [src \in {"ListenBrainz"} |-> <<Entry("t2"), Entry("t1")>>],
      [src \in Sources |-> IF src = "ListenBrainz" THEN <<Entry("t1")>>
                           ELSE <<Entry("t2")>>],
      [src \in Sources |-> IF src = "ListenBrainz" THEN <<>> ELSE <<Entry("t2")>>] }

\* the signals a track carries when the pass runs
Profiles == {"unrated", "one", "five", "guest_star"}
ProfileAnn(profile, account) ==
    CASE profile = "one" /\ account = UserNd         -> [rating |-> 1, starred |-> FALSE]
      [] profile = "five" /\ account = UserNd        -> [rating |-> 5, starred |-> FALSE]
      [] profile = "guest_star" /\ account = "guest" -> [rating |-> 0, starred |-> TRUE]
      [] OTHER                                       -> NoAnnotation

\* t1 is the track the pass may release, t2 the one it may have to keep
CleanProfiles ==
    {prof \in [Tracks -> Profiles] :
        prof["t1"] # "five" /\ prof["t2"] \in {"unrated", "five"}}

\* an id of a song the user added to a playlist by hand
UserSong == "u9"

CleanPlaylists ==
    { [n \in names |-> CASE n = WeeklyLB     -> lb
                         [] n = WeeklyLastFm -> <<"t2", UserSong>>
                         [] OTHER            -> <<"t1">>] :
        names \in {{WeeklyLB, WeeklyLastFm}, {WeeklyLB, WeeklyLastFm, RoadTrip},
                   {WeeklyLastFm}},
        lb \in {<<"t1", "t2">>, <<UserSong, "t2", "t1">>} }

CleanInit ==
    /\ history \in CleanLedgers
    /\ lastOp = NoOp
    /\ opCount = 0
    /\ library \in {Tracks, {"t2"}}
    /\ \E prof \in CleanProfiles :
          ann = [a \in Accounts |-> [t \in Tracks |-> ProfileAnn(prof[t], a)]]
    /\ plists \in CleanPlaylists
    /\ dbMode \in {"ok", "absent"}
    /\ adminUser = ""
    /\ apiDown = FALSE
    /\ ProtIdle
    /\ disk \in SUBSET Files
    /\ disk0 = disk
    /\ plists0 = plists
    /\ cpc = "idle"
    /\ chist = <<>>
    /\ csources = <<>>
    /\ cidx = 0
    /\ cplaylist = NoPlaylist
    /\ toRemove = <<>>
    /\ keepIds = <<>>
    /\ report = <<>>
    /\ faults = FALSE
    /\ SchedIdle
    /\ MatchIdle
    /\ MoreIdle

CleanNext ==
    \/ CleanupStart
    \/ EntryLookupRaises
    \/ \E ok \in BOOLEAN : CleanupSource(ok)
    \/ CleanupEnd
    \/ EntryGone
    \/ EntryKept
    \/ \E path \in Files \cup {NoFile, LibraryRoot}, ok \in BOOLEAN : EntryRelease(path, ok)
    \/ \E outcome \in UpdateOutcomes : CleanupFinishSource(outcome)

SpecCleanup == CleanInit /\ [][CleanNext]_vars

RatingsOf(song) == {ann[a][song].rating : a \in Accounts}
StarredBySomeone(song) == \E a \in Accounts : ann[a][song].starred
InLedger(line) == Matching(line.source, line.artist, line.title) # {}
InPlaylist(pl, name, id) == name \in DOMAIN pl /\ id \in Elems(pl[name])

(* C1: when the pass has ended, every entry of a track that still exists in
   the library, is not protected and for which no file could be located on
   disk is still in the ledger. *)
C1_UnlocatedEntryRetained ==
    cpc = "done" =>
        \A k \in DOMAIN report :
            report[k].what = "file_not_found" => InLedger(report[k])

(* C2: a ListenBrainz entry whose highest rating over all accounts is 1, that
   nobody starred and whose only playlist is "ListenBrainz Weekly" has, once
   the pass has ended without a failed removal or request, its file
   deleted, its entry out of the ledger and its id out of the playlist. *)
C2_OneStarReleased ==
    (cpc = "done" /\ ~faults) =>
        \A k \in DOMAIN report :
            ( /\ report[k].source = "ListenBrainz"
              /\ report[k].id \in library
              /\ RatingsOf(report[k].id) = {0, 1}
              /\ ~StarredBySomeone(report[k].id)
              /\ \A n \in DOMAIN plists0 :
                    InPlaylist(plists0, n, report[k].id) <=> n = WeeklyLB
              /\ TrackFile(report[k].id) \in disk0 )
            => /\ TrackFile(report[k].id) \notin disk
               /\ ~InLedger(report[k])
               /\ ~InPlaylist(plists, WeeklyLB, report[k].id)

(* C3: once the pass has ended without a failed removal or request, a track
   whose evaluation returned protected still has its file, its entry is out
   of the ledger and its id is still in the source's playlist. *)
C3_ProtectedFileKept ==
    (cpc = "done" /\ ~faults) =>
        \A k \in DOMAIN report :
            report[k].what = "kept" =>
                /\ TrackFile(report[k].id) \in disk0 => TrackFile(report[k].id) \in disk
                /\ ~InLedger(report[k])
                /\ InPlaylist(plists0, PlaylistNameOf(report[k].source), report[k].id)
                      => InPlaylist(plists, PlaylistNameOf(report[k].source), report[k].id)

(***************************************************************************)
(* Pass triggers: the web endpoints and the playlist monitor's scheduler   *)
(***************************************************************************)

\* Bound: passes of one kind one user may have in flight in the model.
MaxInFlight == 2

NotSched == <<ledgerVars, envVars, protVars, cleanVars, matchVars, moreVars>>

Started(u, k) == [inflight EXCEPT ![u][k] = @ + 1]

\* trigger_listenbrainz_download, trigger_lastfm_download, run_now: the
\* queue entry is written and trackdrop.py is spawned, whatever is running
TriggerDownload(u) ==
    /\ inflight[u]["download"] < MaxInFlight
    /\ inflight' = Started(u, "download")
    /\ UNCHANGED NotSched

\* trigger_navidrome_cleanup, trigger_debug_cleanup: the cleanup runs in the
\* thread of the request, whatever is running
TriggerCleanup(u) ==
    /\ inflight[u]["cleanup"] < MaxInFlight
    /\ inflight' = Started(u, "cleanup")
    /\ UNCHANGED NotSched

\* api_sync_monitored_playlist: a new thread runs the sync
ManualSync(u) ==
    /\ inflight[u]["sync"] < MaxInFlight
    /\ inflight' = Started(u, "sync")
    /\ UNCHANGED NotSched

\* _scheduler_loop: the one scheduler thread syncs the due playlists one
\* after the other, so it is in at most one sync; it looks at nothing else
PollerSync(u) ==
    /\ \A v \in Users : inflight[v]["poll"] = 0
    /\ inflight' = Started(u, "poll")
    /\ UNCHANGED NotSched

\* a pass comes to its end
PassEnds(u, k) ==
    /\ inflight[u][k] > 0
    /\ inflight' = [inflight EXCEPT ![u][k] = @ - 1]
    /\ UNCHANGED NotSched

SchedInit ==
    /\ LedgerInit

SchedNext ==
    \E u \in Users :
        \/ TriggerDownload(u)
        \/ TriggerCleanup(u)
        \/ ManualSync(u)
        \/ PollerSync(u)
        \/ \E k \in PassKinds : PassEnds(u, k)

SpecSched == SchedInit /\ [][SchedNext]_vars

RECURSIVE SumOver(_, _)
SumOver(f, keys) ==
    IF keys = {} THEN 0
    ELSE LET k == CHOOSE x \in keys : TRUE
         IN  f[k] + SumOver(f, keys \ {k})

PassesOf(u) == SumOver(inflight[u], PassKinds)

(* C8: at no time does a user have more than one reconciliation pass
   (download, cleanup or monitored-playlist sync) in flight. *)
C8_OnePassPerUser == \A u \in Users : PassesOf(u) <= 1

(***************************************************************************)
(* Library matcher: _normalize_for_match and _search_song_in_navidrome     *)
(***************************************************************************)

\* what \s matches among the characters of the model
Whitespace == {" ", "\t"}

IsSpace(c) == c \in Whitespace

\* s[i:], counting from 1
From(s, i) == SubSeq(s, i, Len(s))

\* the first index of s that satisfies nothing but being in idx, or 0
First(idx) == IF idx = {} THEN 0 ELSE CHOOSE i \in idx : \A j \in idx : i <= j

\* str.strip()
Strip(s) ==
    LET solid == {i \in DOMAIN s : ~IsSpace(s[i])}
    IN  IF solid = {} THEN <<>>
        ELSE SubSeq(s, First(solid), CHOOSE i \in solid : \A j \in solid : j <= i)

\* str.rstrip('.')
RStripDots(s) ==
    LET solid == {i \in DOMAIN s : s[i] # "."}
    IN  IF solid = {} THEN <<>>
        ELSE SubSeq(s, 1, CHOOSE i \in solid : \A j \in solid : j <= i)

\* the words of the clause pattern (feat\.?|ft\.?|featuring|with)
ClauseWords ==
    { <<"f", "e", "a", "t">>, <<"f", "e", "a", "t", ".">>,
      <<"f", "t">>, <<"f", "t", ".">>,
      <<"f", "e", "a", "t", "u", "r", "i", "n", "g">>,
      <<"w", "i", "t", "h">> }

StartsAt(s, j, w) ==
    /\ j + Len(w) - 1 <= Len(s)
    /\ \A k \in 1..Len(w) : s[j + k - 1] = w[k]

\* a clause word at j with whitespace right after it: (word)\s+
ClauseAt(s, j) ==
    \E w \in ClauseWords :
        /\ StartsAt(s, j, w)
        /\ j + Len(w) <= Len(s)
        /\ IsSpace(s[j + Len(w)])

\* where the \s* in front of position j starts
RunStart(s, j) ==
    CHOOSE i \in 1..j :
        /\ \A k \in i..(j - 1) : IsSpace(s[k])
        /\ (i = 1 \/ ~IsSpace(s[i - 1]))

\* re.sub(r'\s*(feat\.?|ft\.?|featuring|with)\s+.*', '', t): the leftmost
\* match runs to the end of the string
RemoveClause(s) ==
    LET j == First({k \in DOMAIN s : ClauseAt(s, k)})
    IN  IF j = 0 THEN s ELSE SubSeq(s, 1, RunStart(s, j) - 1)

Openers == {"(", "["}
Closers == {")", "]"}

\* re.sub(r'\s*[\(\[].*?[\)\]]', '', t): every match, left to right; a
\* match is the whitespace before an opener, the opener, and all up to the
\* first closer after it, of either shape
RECURSIVE RemoveBrackets(_)
RemoveBrackets(s) ==
    LET j == First({k \in DOMAIN s : s[k] \in Openers})
        k == IF j = 0 THEN 0
             ELSE First({m \in DOMAIN s : m > j /\ s[m] \in Closers})
    IN  IF k = 0 THEN s
        ELSE SubSeq(s, 1, RunStart(s, j) - 1) \o RemoveBrackets(From(s, k + 1))

\* re.sub(r'\s+', ' ', t)
RECURSIVE Collapse(_)
Collapse(s) ==
    IF s = <<>> THEN <<>>
    ELSE IF IsSpace(s[1])
         THEN LET n == First({k \in DOMAIN s : ~IsSpace(s[k])})
              IN  <<" ">> \o (IF n = 0 THEN <<>> ELSE Collapse(From(s, n)))
         ELSE <<s[1]>> \o Collapse(Tail(s))

NormalizeForMatch(text) ==
    Strip(Collapse(RemoveBrackets(RemoveClause(RStripDots(Strip(Lower(text)))))))

\* the separators of re.split(r'[,&\s]+', ...)
IsSeparator(c) == c \in {",", "&"} \cup Whitespace

\* set(re.split(r'[,&\s]+', s)): the runs between separators, and the empty
\* string when s is empty or starts or ends with a separator
SplitWords(s) ==
    { SubSeq(s, i, j) : <<i, j>> \in
        { p \in (DOMAIN s) \X (DOMAIN s) :
            /\ p[1] <= p[2]
            /\ \A k \in p[1]..p[2] : ~IsSeparator(s[k])
            /\ (p[1] = 1 \/ IsSeparator(s[p[1] - 1]))
            /\ (p[2] = Len(s) \/ IsSeparator(s[p[2] + 1])) } }
    \cup (IF s = <<>> \/ IsSeparator(s[1]) \/ IsSeparator(s[Len(s)])
          THEN {<<>>} ELSE {})

\* the smallest score _search_song_in_navidrome accepts
AcceptScore == 60

TitleScore(normTitle, sTitle) ==
    IF sTitle = normTitle THEN 100
    ELSE IF IsSubstr(normTitle, sTitle) \/ IsSubstr(sTitle, normTitle) THEN 60
    ELSE 0

\* the artist part of the score with its first two branches left out
ArtistWordsOnly(normArtist, sArtist) ==
    30 * Cardinality(SplitWords(normArtist) \cap SplitWords(sArtist))

ArtistScore(normArtist, sArtist) ==
    IF sArtist = normArtist THEN 100
    ELSE IF IsSubstr(normArtist, sArtist) \/ IsSubstr(sArtist, normArtist) THEN 60
    ELSE 30 * Cardinality(SplitWords(normArtist) \cap SplitWords(sArtist))

AlbumScore(normAlbum, sAlbum) ==
    IF sAlbum = normAlbum THEN 50
    ELSE IF IsSubstr(normAlbum, sAlbum) \/ IsSubstr(sAlbum, normAlbum) THEN 25
    ELSE 0 - 200

\* norm_album: None when no album was passed or the album is the empty
\* string; <<>> stands for both None and a hint that normalizes to nothing,
\* since the code tests it for truth only
NormAlbum(q) ==
    IF q.albumGiven /\ q.album # <<>> THEN NormalizeForMatch(q.album) ELSE <<>>

\* _score
Score(q, song) ==
    TitleScore(NormalizeForMatch(q.title), NormalizeForMatch(song.title))
    + ArtistScore(NormalizeForMatch(q.artist), NormalizeForMatch(song.artist))
    + (IF NormAlbum(q) # <<>>
       THEN AlbumScore(NormAlbum(q), NormalizeForMatch(song.album))
       ELSE 0)

\* scored.sort(key=score, reverse=True)[0]: the sort is stable, so of the
\* candidates with the highest score the one that arrived first
BestIndex(q, pool) ==
    CHOOSE i \in DOMAIN pool :
        /\ \A j \in DOMAIN pool : Score(q, pool[j]) <= Score(q, pool[i])
        /\ \A j \in 1..(i - 1) : Score(q, pool[j]) < Score(q, pool[i])

NoMatch(score) == [status |-> "none", pick |-> 0, score |-> score]

SearchSong(q, pool) ==
    IF pool = <<>> THEN NoMatch(0)
    ELSE LET b == BestIndex(q, pool)
         IN  IF Score(q, pool[b]) >= AcceptScore
             THEN [status |-> "match", pick |-> b, score |-> Score(q, pool[b])]
             ELSE NoMatch(Score(q, pool[b]))

\* Bound: how many candidates the searches of one call bring together.
MaxCand == 2

QueryArtists ==
    { <<"D", "J", " ", "f", "e", "a", "t", ".", " ", "B">>,
      <<"D", "J">>,
      <<"a", ",", " ", "b", ",", " ", "c", " ", "&", " ", "d", " ", "e", " ", "f">> }

QueryTitles == { <<"T">>, <<"T", " ", "(", "x", ")">>, <<"(", "x", ")">> }

\* albumGiven FALSE is album=None
QueryAlbums ==
    { [albumGiven |-> FALSE, album |-> <<>>],
      [albumGiven |-> TRUE, album |-> <<"X">>],
      [albumGiven |-> TRUE, album |-> <<"X", " ", "Y">>],
      [albumGiven |-> TRUE, album |-> <<"(", "x", ")">>] }

Queries ==
    { [artist |-> a, title |-> t, album |-> al.album, albumGiven |-> al.albumGiven] :
        a \in QueryArtists, t \in QueryTitles, al \in QueryAlbums }

\* the songs the server can answer with
LibrarySongs ==
    { [id |-> "n1", artist |-> <<"D", "J">>, title |-> <<"T">>, album |-> <<"X">>],
      [id |-> "n2", artist |-> <<"D", "J">>, title |-> <<"T">>, album |-> <<"Y">>],
      [id |-> "n3",
       artist |-> <<"a", " ", "&", " ", "b", ",", " ", "c", ",", " ", "d", " ", "e", " ", "f">>,
       title |-> <<"T">>, album |-> <<"Y">>],
      [id |-> "n4", artist |-> <<"Z">>, title |-> <<"Q">>, album |-> <<"X">>],
      [id |-> "n5", artist |-> <<"D", "J", " ", "f", "t", ".", " ", "c">>,
       title |-> <<"T", ".">>, album |-> <<"x", " ", "y">>],
      [id |-> "n6", artist |-> <<"b">>, title |-> <<"T", " ", "Q">>, album |-> <<>>] }

NotMatch == <<ledgerVars, envVars, protVars, cleanVars, schedVars, moreVars>>

\* a search3 answer brings a song not seen before into all_candidates
SearchHit(song) ==
    /\ mresult.status = "pending"
    /\ Len(mpool) < MaxCand
    /\ \A i \in DOMAIN mpool : mpool[i].id # song.id
    /\ mpool' = Append(mpool, song)
    /\ UNCHANGED <<mquery, mresult>>
    /\ UNCHANGED NotMatch

\* the candidates are scored and the best one is returned or refused
Pick ==
    /\ mresult.status = "pending"
    /\ mresult' = SearchSong(mquery, mpool)
    /\ UNCHANGED <<mquery, mpool>>
    /\ UNCHANGED NotMatch

MatchInit ==
    /\ history = [src \in Sources |-> <<>>]
    /\ lastOp = NoOp
    /\ opCount = 0
    /\ EnvIdle
    /\ ProtIdle
    /\ CleanIdle
    /\ SchedIdle
    /\ mquery \in Queries
    /\ mpool = <<>>
    /\ mresult = [status |-> "pending", pick |-> 0, score |-> 0]
    /\ MoreIdle

MatchNext ==
    \/ \E song \in LibrarySongs : SearchHit(song)
    \/ Pick

SpecMatch == MatchInit /\ [][MatchNext]_vars

Searched == mresult.status # "pending"

\* the candidates whose normalized artist and title both equal the query's
ExactCandidates ==
    { i \in DOMAIN mpool :
        /\ NormalizeForMatch(mpool[i].artist) = NormalizeForMatch(mquery.artist)
        /\ NormalizeForMatch(mpool[i].title) = NormalizeForMatch(mquery.title) }

\* the candidate's album equals the hint, contains it or is contained in it
AlbumAgrees(i) ==
    LET sAlbum == NormalizeForMatch(mpool[i].album)
    IN  \/ sAlbum = NormAlbum(mquery)
        \/ IsSubstr(NormAlbum(mquery), sAlbum)
        \/ IsSubstr(sAlbum, NormAlbum(mquery))

(* C9, as stated: a candidate whose normalized artist and title both equal
   the query's scores at least 160 and the search returns a match, whatever
   the album hint and the candidate's album. *)
C9_ExactAlwaysAccepted ==
    Searched =>
        \A i \in ExactCandidates :
            /\ Score(mquery, mpool[i]) >= 160
            /\ mresult.status = "match"

(* C9, amended: such a candidate scores at least 160 and the search returns
   a match at least as good, provided no album hint is in force or the
   candidate's album equals, contains or is contained in the hint; when a
   hint is in force and the album differs, the candidate scores 0. *)
C9_ExactAcceptedUnlessAlbumDiffers ==
    Searched =>
        \A i \in ExactCandidates :
            IF NormAlbum(mquery) = <<>> \/ AlbumAgrees(i)
            THEN /\ Score(mquery, mpool[i]) >= 160
                 /\ mresult.status = "match"
                 /\ mresult.score >= Score(mquery, mpool[i])
            ELSE Score(mquery, mpool[i]) = 0

\* an artist that equals the query's only once the feat. clause is gone,
\* under an album hint it agrees with, is what the search returned
C9_Witness ==
    /\ mresult.status = "match"
    /\ mresult.pick \in ExactCandidates
    /\ mpool[mresult.pick].artist # mquery.artist
    /\ Lower(mpool[mresult.pick].artist) # Lower(mquery.artist)
    /\ NormAlbum(mquery) # <<>>
    /\ AlbumAgrees(mresult.pick)

(* C10: when an album hint is in force and a candidate with exactly that
   album is in the pool, the search never returns a candidate whose album
   neither equals the hint nor contains it nor is contained in it. *)
C10_DifferingAlbumNeverWins ==
    (/\ Searched
     /\ NormAlbum(mquery) # <<>>
     /\ \E i \in DOMAIN mpool : NormalizeForMatch(mpool[i].album) = NormAlbum(mquery))
    => ~(mresult.status = "match" /\ ~AlbumAgrees(mresult.pick))

\* the candidate's title and the query's are the same or one holds the
\* other, neither being empty
TitleMatches(q, song) ==
    LET a == NormalizeForMatch(q.title)
        b == NormalizeForMatch(song.title)
    IN  a # <<>> /\ b # <<>> /\ (IsSubstr(a, b) \/ IsSubstr(b, a))

\* the same for the artists, or the two share a word that is not empty
ArtistMatches(q, song) ==
    LET a == NormalizeForMatch(q.artist)
        b == NormalizeForMatch(song.artist)
    IN  /\ a # <<>>
        /\ b # <<>>
        /\ \/ IsSubstr(a, b)
           \/ IsSubstr(b, a)
           \/ (SplitWords(a) \cap SplitWords(b)) \ {<<>>} # {}

(* C11: the search returns a candidate only when that candidate has the
   highest score of the pool and the score is at least 60, returns no match
   otherwise, and a returned candidate matches the query in title or in
   artist, also when a normalized field is the empty string. *)
C11_ReturnedMatchesTitleOrArtist ==
    Searched =>
        /\ mresult.status = "match" =>
              /\ mresult.score >= AcceptScore
              /\ mresult.score = Score(mquery, mpool[mresult.pick])
              /\ \A i \in DOMAIN mpool : Score(mquery, mpool[i]) <= mresult.score
              /\ \/ TitleMatches(mquery, mpool[mresult.pick])
                 \/ ArtistMatches(mquery, mpool[mresult.pick])
        /\ mresult.status = "none" =>
              \A i \in DOMAIN mpool : Score(mquery, mpool[i]) < AcceptScore

(***************************************************************************)
(* The normalizer on its own: _normalize_for_match applied to its output   *)
(***************************************************************************)

\* Bound: the longest string handed to the normalizer.
MaxLen == 4

NormAlphabet == {"a", "A", "f", "t", " ", ".", "(", ")"}

NormInputs == UNION {[1..n -> NormAlphabet] : n \in 0..MaxLen}

CoreIdle ==
    /\ history = [src \in Sources |-> <<>>]
    /\ lastOp = NoOp
    /\ opCount = 0
    /\ EnvIdle
    /\ ProtIdle
    /\ CleanIdle
    /\ SchedIdle
    /\ MatchIdle

NotNorm == <<coreVars, syncVars, resumeVars, lateVars>>

\* the normalizer is called on the input, then on what it returned
Normalize ==
    /\ Len(nouts) < 2
    /\ nouts' = Append(nouts, NormalizeForMatch(IF nouts = <<>> THEN nin ELSE nouts[Len(nouts)]))
    /\ UNCHANGED nin
    /\ UNCHANGED NotNorm

NormInit ==
    /\ CoreIdle
    /\ SyncIdle
    /\ ResumeIdle
    /\ LateIdle
    /\ nin \in NormInputs
    /\ nouts = <<>>

NormNext == Normalize

SpecNorm == NormInit /\ [][NormNext]_vars

(* C12: the normalizer is idempotent: normalizing the normalized form of a
   string gives the normalized form again. *)
C12_NormalizeIdempotent == Len(nouts) = 2 => nouts[2] = nouts[1]

(***************************************************************************)
(* Playlist synchronizer on its own: _create_playlist, _update_playlist    *)
(***************************************************************************)

SyncName == "P"
SongIds == {"s1", "s2", "s3"}
IdLists == UNION {[1..n -> SongIds] : n \in 0..2}

NotSync == <<coreVars, normVars, resumeVars, lateVars>>

\* _create_playlist: one request; it makes the playlist with the songs
CreatePlaylist(ids, requestOk) ==
    /\ SyncName \notin DOMAIN ppl
    /\ ppl' = IF requestOk THEN [n \in {SyncName} |-> ids] ELSE ppl
    /\ plast' = [op |-> "create", ids |-> ids, ok |-> requestOk]
    /\ UNCHANGED NotSync

UpdateCall(ids, outcome) ==
    /\ SyncName \in DOMAIN ppl
    /\ ppl' = UpdatePlaylist(ppl, SyncName, ids, outcome)
    /\ plast' = [op |-> "update", ids |-> ids,
                 ok |-> UpdateReturns(ppl, SyncName, ids, outcome)]
    /\ UNCHANGED NotSync

SyncInit ==
    /\ CoreIdle
    /\ NormIdle
    /\ ResumeIdle
    /\ LateIdle
    /\ ppl \in {<<>>} \cup {[n \in {SyncName} |-> ids] : ids \in IdLists}
    /\ plast = [op |-> "none", ids |-> <<>>, ok |-> FALSE]

SyncNext ==
    \E ids \in IdLists :
        \/ \E requestOk \in BOOLEAN : CreatePlaylist(ids, requestOk)
        \/ \E outcome \in UpdateOutcomes : UpdateCall(ids, outcome)

SpecSync == SyncInit /\ [][SyncNext]_vars

(* C13: after any call of _update_playlist or _create_playlist that returned
   success, the first or a repeated one, the playlist exists and its
   membership is set-equal to the ids of the call. *)
C13_MembershipIsDesired ==
    plast.ok =>
        /\ SyncName \in DOMAIN ppl
        /\ Elems(ppl[SyncName]) = Elems(plast.ids)

(***************************************************************************)
(* Cleanup pass: the rebuilt playlists                                     *)
(***************************************************************************)

\* the ids the ledger of a source tracked when the pass loaded it
TrackedIds(src) ==
    IF src \in DOMAIN chist THEN IdsOf(chist[src]) ELSE {}

\* the ids of a source whose evaluation returned protected
KeptIds(src) ==
    {report[k].id : k \in {j \in DOMAIN report :
                              report[j].source = src /\ report[j].what = "kept"}}

\* the ids of a source that the pass released or found gone
DroppedIds(src) == TrackedIds(src) \ KeptIds(src)

(* C14: when the pass has ended and no request of it failed, every source's
   playlist that existed at the start holds exactly the ids it held then
   that the source's ledger did not track or whose evaluation returned
   protected: no untracked id was removed and no tracked unprotected id
   remains. *)
C14_RebuiltMembership ==
    (cpc = "done" /\ ~faults) =>
        \A src \in Sources :
            PlaylistNameOf(src) \in DOMAIN plists0 =>
                Elems(plists[PlaylistNameOf(src)]) =
                    {id \in Elems(plists0[PlaylistNameOf(src)]) :
                        id \notin TrackedIds(src) \/ id \in KeptIds(src)}

\* a rebuilt playlist that held a song of the user, a kept track and a
\* released track lost the released one only
C14_Witness ==
    /\ cpc = "done"
    /\ ~faults
    /\ WeeklyLB \in DOMAIN plists0
    /\ UserSong \in Elems(plists0[WeeklyLB])
    /\ UserSong \in Elems(plists[WeeklyLB])
    /\ Elems(plists0[WeeklyLB]) \cap KeptIds("ListenBrainz") # {}
    /\ Elems(plists0[WeeklyLB]) \cap DroppedIds("ListenBrainz") # {}
    /\ Elems(plists[WeeklyLB]) \cap DroppedIds("ListenBrainz") = {}

\* the pass has stopped, by reaching its end or by an exception
PassStopped == cpc \in {"done", "aborted"}

(* C15: when the pass has stopped, also after a lookup that raised for one
   entry, every entry of the ledger it loaded has been processed, and every
   entry it decided on is out of the ledger. *)
C15_FailureDoesNotAbort ==
    PassStopped =>
        /\ \A src \in DOMAIN chist : \A i \in DOMAIN chist[src] :
              \E k \in DOMAIN report :
                  /\ report[k].source = src
                  /\ report[k].artist = chist[src][i].artist
                  /\ report[k].title = chist[src][i].title
        /\ \A k \in DOMAIN report : ~InLedger(report[k])

(***************************************************************************)
(* Download pass: process_recommendations and update_api_playlists, with   *)
(* the process stopped and started again                                   *)
(***************************************************************************)

\* Bound: how often the pass is started.
MaxRuns == 2

NotResume == <<coreVars, normVars, syncVars, lateVars>>

\* a file is "temp" in the download folder, "library" once moved under the
\* library, "indexed" once the server has scanned it
InLibrary(i) == rloc[i] \in {"library", "indexed"}

\* trackdrop.py is started: nothing of an earlier run's memory is left
StartPass ==
    /\ rpc \in {"idle", "aborted", "done"}
    /\ rruns < MaxRuns
    /\ rruns' = rruns + 1
    /\ rpc' = "download"
    /\ ridx' = 1
    /\ rdown' = {}
    /\ UNCHANGED <<rloc, rledger, rmade>>
    /\ UNCHANGED NotResume

\* download_track for one recommendation: a track the server already knows
\* is marked _duplicate and skipped; else the file is fetched into the
\* download folder, which may fail
DownloadTrack(fetched) ==
    /\ rpc = "download"
    /\ ridx <= Len(Recs)
    /\ IF rloc[ridx] = "indexed"
       THEN /\ fetched
            /\ UNCHANGED <<rloc, rmade, rdown>>
       ELSE IF fetched
            THEN /\ rloc' = [rloc EXCEPT ![ridx] = IF InLibrary(ridx) THEN @ ELSE "temp"]
                 /\ rmade' = rmade \cup {ridx}
                 /\ rdown' = rdown \cup {ridx}
            ELSE UNCHANGED <<rloc, rmade, rdown>>
    /\ ridx' = ridx + 1
    /\ UNCHANGED <<rledger, rpc, rruns>>
    /\ UNCHANGED NotResume

\* organize_music_files, when something was downloaded: every audio file of
\* the download folder is moved under the library
Organize ==
    /\ rpc = "download"
    /\ ridx > Len(Recs)
    /\ rloc' = IF rdown = {} THEN rloc
               ELSE [i \in DOMAIN Recs |-> IF rloc[i] = "temp" THEN "library" ELSE rloc[i]]
    /\ rpc' = "scan"
    /\ UNCHANGED <<rledger, rmade, ridx, rdown, rruns>>
    /\ UNCHANGED NotResume

\* update_api_playlists: _start_scan and _wait_for_scan when something was
\* downloaded
PassScan ==
    /\ rpc = "scan"
    /\ rloc' = IF rdown = {} THEN rloc
               ELSE [i \in DOMAIN Recs |-> IF rloc[i] = "library" THEN "indexed" ELSE rloc[i]]
    /\ rpc' = "update"
    /\ ridx' = 1
    /\ UNCHANGED <<rledger, rmade, rdown, rruns>>
    /\ UNCHANGED NotResume

\* update_api_playlists, one recommendation: a song the server finds gets a
\* ledger entry if it is in downloaded_songs_info of this run
UpdateTrack ==
    /\ rpc = "update"
    /\ ridx <= Len(Recs)
    /\ rledger' = IF rloc[ridx] = "indexed" /\ ridx \in rdown
                  THEN rledger \cup {ridx} ELSE rledger
    /\ ridx' = ridx + 1
    /\ UNCHANGED <<rloc, rmade, rpc, rdown, rruns>>
    /\ UNCHANGED NotResume

PassDone ==
    /\ rpc = "update"
    /\ ridx > Len(Recs)
    /\ rpc' = "done"
    /\ UNCHANGED <<rloc, rledger, rmade, ridx, rdown, rruns>>
    /\ UNCHANGED NotResume

\* the process is stopped in the middle of a pass
PassAbort ==
    /\ rpc \in {"download", "scan", "update"}
    /\ rpc' = "aborted"
    /\ UNCHANGED <<rloc, rledger, rmade, ridx, rdown, rruns>>
    /\ UNCHANGED NotResume

\* the server scans its library on its own schedule
ServerScan ==
    /\ \E i \in DOMAIN Recs : rloc[i] = "library"
    /\ rloc' = [i \in DOMAIN Recs |-> IF rloc[i] = "library" THEN "indexed" ELSE rloc[i]]
    /\ UNCHANGED <<rledger, rmade, rpc, ridx, rdown, rruns>>
    /\ UNCHANGED NotResume

ResumeInit ==
    /\ CoreIdle
    /\ NormIdle
    /\ SyncIdle
    /\ ResumeIdle
    /\ LateIdle

ResumeNext ==
    \/ StartPass
    \/ \E fetched \in BOOLEAN : DownloadTrack(fetched)
    \/ Organize
    \/ PassScan
    \/ UpdateTrack
    \/ PassDone
    \/ PassAbort
    \/ ServerScan

SpecResume == ResumeInit /\ [][ResumeNext]_vars

(* C16: once a pass has run to completion, whatever was aborted before it,
   every file the engine downloaded that lies in the library has a ledger
   entry. *)
C16_ResumedPassTracksFiles ==
    rpc = "done" =>
        \A i \in rmade : InLibrary(i) => i \in rledger

(***************************************************************************)
(* Monitored playlists: the background poller of playlist_monitor.py and   *)
(* the web requests that write the same file                               *)
(***************************************************************************)

\* Bound: the last hour the clock reaches.
MaxClock == 2

\* poll_interval_hours of the entries, in hours
Intervals == {1, 2}

NotMon == <<coreVars, normVars, syncVars, resumeVars, retryVars, mbVars, recVars, statVars, dedupVars, findVars, debugVars, plVars, cntVars, mpVars, tagVars, loopVars, weekVars, pathVars>>

\* the poller's test on an entry, as it reads it, at its "now"
Due(e, now) == e.last = Never \/ now - e.last >= e.interval

\* time passes: while the poller sleeps, while a sync runs, at any point
Advance ==
    /\ clock < MaxClock
    /\ clock' = clock + 1
    /\ UNCHANGED <<store, snap, tnow, tpos, tpc, mload, web, attempted>>
    /\ UNCHANGED NotMon

\* a tick of the poller: the file and the time are read once
Tick ==
    /\ tpc = "sleep"
    /\ snap' = store
    /\ tnow' = clock
    /\ tpos' = 1
    /\ tpc' = "walk"
    /\ UNCHANGED <<store, clock, mload, web, attempted>>
    /\ UNCHANGED NotMon

\* the loop body up to the call of _sync_playlist, for the entry in hand
Consider ==
    /\ tpc = "walk"
    /\ tpos <= Len(Order)
    /\ LET p == Order[tpos]
           e == snap[p]
       IN  IF ~e.enabled \/ ~Due(e, tnow)
           THEN /\ tpos' = tpos + 1
                /\ UNCHANGED <<tpc, attempted>>
           ELSE /\ tpc' = "syncing"
                /\ attempted' = [attempted EXCEPT ![p] = clock]
                /\ UNCHANGED tpos
    /\ UNCHANGED <<store, clock, snap, tnow, mload, web>>
    /\ UNCHANGED NotMon

\* _sync_playlist's try block ends: the download completed, or raised and
\* was caught
SyncEnds(raised) ==
    /\ tpc = "syncing"
    /\ tpc' = "mark"
    /\ UNCHANGED <<store, clock, snap, tnow, tpos, mload, web, attempted>>
    /\ UNCHANGED NotMon

\* mark_synced: the file is loaded under the lock
MarkLoad ==
    /\ tpc = "mark"
    /\ mload' = store
    /\ tpc' = "marked"
    /\ UNCHANGED <<store, clock, snap, tnow, tpos, web, attempted>>
    /\ UNCHANGED NotMon

\* mark_synced: the loaded list, with last_synced set, is saved under the lock
MarkSave ==
    /\ tpc = "marked"
    /\ store' = [mload EXCEPT ![Order[tpos]].last = clock]
    /\ mload' = <<>>
    /\ tpos' = tpos + 1
    /\ tpc' = "walk"
    /\ UNCHANGED <<clock, snap, tnow, web, attempted>>
    /\ UNCHANGED NotMon

\* the walk is over: the poller sleeps until the next tick
TickEnds ==
    /\ tpc = "walk"
    /\ tpos > Len(Order)
    /\ tpc' = "sleep"
    /\ tpos' = 0
    /\ snap' = <<>>
    /\ tnow' = 0
    /\ UNCHANGED <<store, clock, mload, web, attempted>>
    /\ UNCHANGED NotMon

\* update_monitored_playlist(p, {"enabled": v}) loads the file
UpdateLoad(p, v) ==
    /\ web.kind = "none"
    /\ web' = [kind |-> "update", pid |-> p, val |-> v, loaded |-> store]
    /\ UNCHANGED <<store, clock, snap, tnow, tpos, tpc, mload, attempted>>
    /\ UNCHANGED NotMon

\* update_monitored_playlist saves the list it loaded, with its change
UpdateSave ==
    /\ web.kind # "none"
    /\ store' = [web.loaded EXCEPT ![web.pid].enabled = web.val]
    /\ web' = NoWeb
    /\ UNCHANGED <<clock, snap, tnow, tpos, tpc, mload, attempted>>
    /\ UNCHANGED NotMon

MonInit ==
    /\ CoreIdle
    /\ NormIdle
    /\ SyncIdle
    /\ ResumeIdle
    /\ PathIdle
    /\ WeekIdle
    /\ LoopIdle
    /\ TagIdle
    /\ MpIdle
    /\ CntIdle
    /\ PlIdle
    /\ DebugIdle
    /\ FindIdle
    /\ DedupIdle
    /\ StatIdle
    /\ RecIdle
    /\ RetryIdle
    /\ MbIdle
    /\ \E n \in Intervals : store = [p \in Pids |-> [enabled |-> TRUE, interval |-> IF p = "p1" THEN 1 ELSE n, last |-> Never]]
    /\ clock = 0
    /\ snap = <<>>
    /\ tnow = 0
    /\ tpos = 0
    /\ tpc = "sleep"
    /\ mload = <<>>
    /\ web = NoWeb
    /\ attempted = [p \in Pids |-> Never]

MonNext ==
    \/ Advance
    \/ Tick
    \/ Consider
    \/ \E raised \in BOOLEAN : SyncEnds(raised)
    \/ MarkLoad
    \/ MarkSave
    \/ TickEnds
    \/ \E p \in Pids, v \in BOOLEAN : UpdateLoad(p, v)
    \/ UpdateSave

SpecMon == MonInit /\ [][MonNext]_vars

\* the poller passes the entry in hand to _sync_playlist, or passes it over
PollerSyncs(p) == tpc = "walk" /\ tpc' = "syncing" /\ Order[tpos] = p
PollerSkips(p) == tpc = "walk" /\ tpc' = "walk" /\ tpos' = tpos + 1 /\ Order[tpos] = p

(* C17: at each entry of a tick the poller syncs the entry exactly when the
   entry, as the file has it, is enabled and was never synced or was last
   synced at least poll_interval_hours before the tick; so it never syncs
   an entry the file has as disabled. *)
C17_SyncedIffEnabledAndDue ==
    [][\A p \in Pids :
         /\ PollerSyncs(p) => store[p].enabled /\ Due(store[p], tnow)
         /\ PollerSkips(p) => ~(store[p].enabled /\ Due(store[p], tnow))]_vars

\* the poller is between queueing a sync of p and the end of its mark_synced
Attempting(p) == tpc \in {"syncing", "mark", "marked"} /\ Order[tpos] = p

(* C18: once the poller's attempt on an entry is over, completed or raised,
   the file's last_synced of the entry is no earlier than the attempt. *)
C18_LastSyncedAfterAttempt ==
    \A p \in Pids :
        attempted[p] # Never /\ ~Attempting(p) =>
            store[p].last # Never /\ store[p].last >= attempted[p]

(***************************************************************************)
(* Outbound requests: _make_request_with_retries of the three clients      *)
(***************************************************************************)

Clients == {"deezer", "listenbrainz", "lastfm"}

\* how one requests call can go: a response, an HTTP error status raised by
\* raise_for_status, or an exception of the connection
Outcomes == {"ok", "http4xx", "http5xx", "connection", "connect_timeout", "read_timeout"}

\* requests' exception classes: ConnectTimeout is both a ConnectionError and
\* a Timeout, ReadTimeout is a Timeout only
IsConnectionError(o) == o \in {"connection", "connect_timeout"}
IsTimeout(o) == o \in {"connect_timeout", "read_timeout"}

\* max_retries, the default every caller leaves in place
MaxRetries(c) == IF c = "deezer" THEN 3 ELSE 5

\* what the helper does with the outcome of attempt number n
Handle(c, o, n) ==
    LET again == IF n < MaxRetries(c) THEN "running" ELSE "raised"
    IN  IF o = "ok" THEN "returned"
        ELSE IF c = "deezer" THEN again
        ELSE IF c = "listenbrainz"
             THEN IF IsConnectionError(o) \/ IsTimeout(o) THEN again ELSE "raised"
        ELSE IF IsConnectionError(o) THEN again ELSE "raised"

NotRetry == <<coreVars, normVars, syncVars, resumeVars, monVars, mbVars, recVars, statVars, dedupVars, findVars, debugVars, plVars, cntVars, mpVars, tagVars, loopVars, weekVars, pathVars>>

\* one pass of the helper's loop
Attempt(o) ==
    /\ hstate = "running"
    /\ Len(hseen) < MaxRetries(hclient)
    /\ hseen' = Append(hseen, o)
    /\ hstate' = Handle(hclient, o, Len(hseen) + 1)
    /\ UNCHANGED hclient
    /\ UNCHANGED NotRetry

RetryInit ==
    /\ CoreIdle
    /\ NormIdle
    /\ SyncIdle
    /\ ResumeIdle
    /\ PathIdle
    /\ WeekIdle
    /\ LoopIdle
    /\ TagIdle
    /\ MpIdle
    /\ CntIdle
    /\ PlIdle
    /\ DebugIdle
    /\ FindIdle
    /\ DedupIdle
    /\ StatIdle
    /\ RecIdle
    /\ MonIdle
    /\ MbIdle
    /\ hclient \in Clients
    /\ hseen = <<>>
    /\ hstate = "running"

RetryNext == \E o \in Outcomes : Attempt(o)

SpecRetry == RetryInit /\ [][RetryNext]_vars

(* C19: in each of the three helpers an attempt answered with a 4xx status
   is the last one and the call raises; an attempt that ends in a
   connection or timeout error, when attempts are left, is followed by
   another. *)
C19_FailFastOn4xx ==
    \A i \in DOMAIN hseen :
        /\ hseen[i] = "http4xx" => i = Len(hseen) /\ hstate = "raised"
        /\ (IsConnectionError(hseen[i]) \/ IsTimeout(hseen[i])) /\ i < MaxRetries(hclient)
               => i < Len(hseen) \/ hstate = "running"

(***************************************************************************)
(* MusicBrainz lookups of downloads that run at the same time              *)
(***************************************************************************)

\* Bound: the last instant of the clock, in tenths of a second.
MaxTime == 25

\* asyncio.sleep(1.1) of lookup_mbids, and retry_delay=2, in tenths of a second
RateWait == 11
RetryDelay == 20

NotMb == <<coreVars, normVars, syncVars, resumeVars, monVars, retryVars, recVars, statVars, dedupVars, findVars, debugVars, plVars, cntVars, mpVars, tagVars, loopVars, weekVars, pathVars>>

\* a tenth of a second passes
MbAdvance ==
    /\ mbclock < MaxTime
    /\ mbclock' = mbclock + 1
    /\ UNCHANGED <<dpc, dwake, dtries, mbreqs>>
    /\ UNCHANGED NotMb

\* download_track has its file and calls lookup_mbids on an instance of its
\* own; known: the recommendation came with a recording MBID
StartLookup(d, known) ==
    /\ dpc[d] = "idle"
    /\ dpc' = [dpc EXCEPT ![d] = IF known THEN "credits" ELSE "search"]
    /\ UNCHANGED <<mbclock, dwake, dtries, mbreqs>>
    /\ UNCHANGED NotMb

\* what follows a request of lookup_mbids once its helper has returned or raised
After(phase, found) == IF phase = "search" /\ found THEN "credits" ELSE "done"

\* the download issues a MusicBrainz request: one attempt of the helper
IssueRequest(d, o) ==
    /\ dpc[d] \in {"search", "credits"}
    /\ mbclock >= dwake[d]
    /\ mbreqs' = IF mbreqs = <<>> THEN <<mbclock>> ELSE <<mbreqs[Len(mbreqs)], mbclock>>
    /\ LET went == Handle("listenbrainz", o, dtries[d] + 1)
       IN  IF went = "running"
           THEN /\ dtries' = [dtries EXCEPT ![d] = dtries[d] + 1]
                /\ dwake' = [dwake EXCEPT ![d] = mbclock + RetryDelay]
                /\ UNCHANGED dpc
           ELSE /\ dtries' = [dtries EXCEPT ![d] = 0]
                /\ dwake' = [dwake EXCEPT ![d] = mbclock + RateWait]
                /\ dpc' = [dpc EXCEPT ![d] = After(dpc[d], went = "returned")]
    /\ UNCHANGED mbclock
    /\ UNCHANGED NotMb

MbInit ==
    /\ CoreIdle
    /\ NormIdle
    /\ SyncIdle
    /\ ResumeIdle
    /\ PathIdle
    /\ WeekIdle
    /\ LoopIdle
    /\ TagIdle
    /\ MpIdle
    /\ CntIdle
    /\ PlIdle
    /\ DebugIdle
    /\ FindIdle
    /\ DedupIdle
    /\ StatIdle
    /\ RecIdle
    /\ MonIdle
    /\ RetryIdle
    /\ MbIdle

MbNext ==
    \/ MbAdvance
    \/ \E d \in Downloads, known \in BOOLEAN : StartLookup(d, known)
    \/ \E d \in Downloads, o \in {"ok", "http4xx", "connection"} : IssueRequest(d, o)

SpecMb == MbInit /\ [][MbNext]_vars

(* C20: any two MusicBrainz requests of the process, whichever downloads
   issue them, are at least the rate-limit wait apart. *)
C20_GlobalRateLimit ==
    Len(mbreqs) = 2 => mbreqs[2] - mbreqs[1] >= RateWait

(***************************************************************************)
(* Cleanup pass: stale entries, and what the pass deletes                  *)
(***************************************************************************)

\* the step of the loop that handled an entry and printed `what` for it
Handled(what) ==
    /\ Len(report') = Len(report) + 1
    /\ report'[Len(report')].what = what

(* C21: the step that handles an entry whose id the server no longer has,
   or that has no id, deletes no file and leaves the pass running; once the
   pass has ended the entry is out of the ledger. *)
C21_StaleEntryDropped ==
    /\ [][Handled("gone") => disk' = disk /\ cpc' = "entries"]_vars
    /\ [](cpc = "done" =>
            \A k \in DOMAIN report : report[k].what = "gone" => ~InLedger(report[k]))

C21_Witness ==
    /\ cpc = "done"
    /\ \E k \in DOMAIN report :
          report[k].what = "gone" /\ report[k].id # "" /\ TrackFile(report[k].id) \in disk

\* the same for an entry without an id
C21_WitnessNoId ==
    /\ cpc = "done"
    /\ \E k \in DOMAIN report : report[k].what = "gone" /\ report[k].id = ""
    /\ "f1" \in disk

\* the tracks that have an entry in the ledger the pass loaded
LedgerTracks0 ==
    {t \in Tracks : \E src \in DOMAIN chist : \E i \in DOMAIN chist[src] :
        chist[src][i].artist = TrackArtist(t) /\ chist[src][i].title = TrackTitle(t)}

(* C22: every file that was on disk when the pass started and is gone now
   is the file of a track with an entry in the ledger the pass started
   from. *)
C22_OnlyLedgerFilesDeleted ==
    \A f \in disk0 \ disk : \E t \in LedgerTracks0 : TrackFile(t) = f

(***************************************************************************)
(* Download pass, one recommended track: download_track's duplicate check, *)
(* then update_api_playlists                                               *)
(***************************************************************************)

NotRec == <<coreVars, normVars, syncVars, resumeVars, monVars, retryVars, mbVars, statVars, dedupVars, findVars, debugVars, plVars, cntVars, mpVars, tagVars, loopVars, weekVars, pathVars>>

\* the recommended track, with the album the source gave for it or none
Recommended ==
    { [artist |-> <<"D", "J">>, title |-> <<"T">>, album |-> al, albumGiven |-> al # <<>>] :
        al \in {<<>>, <<"X">>} }

\* the file the engine downloads for it, as the server indexes it
NewSong(rec) ==
    [id |-> "new", artist |-> rec.artist, title |-> rec.title,
     album |-> IF rec.album = <<>> THEN <<"X">> ELSE rec.album]

PreExisting == {s \in LibrarySongs : s.id \in {"n1", "n2", "n4"}}

\* the answers a search can give from songs that were there before the pass
Shelves ==
    {<<>>} \cup {<<s>> : s \in PreExisting}
           \cup {<<s, t>> : <<s, t>> \in {p \in PreExisting \X PreExisting : p[1] # p[2]}}

InsertAt(seq, pos, x) == SubSeq(seq, 1, pos - 1) \o <<x>> \o SubSeq(seq, pos, Len(seq))

\* download_track: the duplicate check searches with the album; a match
\* marks the track _duplicate, else the download succeeds or fails
DownloadOne(fetched) ==
    /\ xpc = "download"
    /\ IF SearchSong(xrec, xlib).status = "match"
       THEN fetched /\ xout' = "skipped"
       ELSE xout' = IF fetched THEN "downloaded" ELSE "failed"
    /\ xpc' = IF xout' = "downloaded" THEN "organize" ELSE "update"
    /\ UNCHANGED <<xrec, xlib, xids, xledger, xpl, xfault>>
    /\ UNCHANGED NotRec

\* organize_music_files, _start_scan, _wait_for_scan: the new file is
\* indexed, or the wait ends before it is
OrganizeAndScan(pos, indexed) ==
    /\ xpc = "organize"
    /\ pos \in 1..(Len(xlib) + 1)
    /\ xlib' = IF indexed THEN InsertAt(xlib, pos, NewSong(xrec)) ELSE xlib
    /\ ~indexed => pos = 1
    /\ xpc' = "update"
    /\ UNCHANGED <<xrec, xout, xids, xledger, xpl, xfault>>
    /\ UNCHANGED NotRec

\* nd_song of update_api_playlists: by path when the track was downloaded and
\* the record store has the path, else by a search without the album
LocatedId(found, byPath) ==
    IF byPath THEN "new"
    ELSE IF found.status = "match" THEN xlib[found.pick].id
    ELSE ""

Located(byPath) == LocatedId(SearchSong([xrec EXCEPT !.albumGiven = FALSE], xlib), byPath)

LBName == "ListenBrainz Weekly"

\* update_api_playlists for the track's source: locate the track, write the
\* ledger entry if it was downloaded, then find and update, or create, the
\* playlist; nothing is sent when no track was located
RecordAndSend(id, ids, outcome) ==
    /\ xids' = ids
    /\ xledger' = IF id # "" /\ xout = "downloaded" THEN xledger \cup {id} ELSE xledger
    /\ IF ids = <<>>
       THEN /\ outcome = "ok"
            /\ UNCHANGED <<xpl, xfault>>
       ELSE IF LBName \in DOMAIN xpl
       THEN /\ xpl' = UpdatePlaylist(xpl, LBName, ids, outcome)
            /\ xfault' = (outcome # "ok")
       ELSE /\ outcome \in {"ok", "add_fails"}
            /\ xpl' = IF outcome = "ok" THEN [n \in {LBName} |-> ids] ELSE xpl
            /\ xfault' = (outcome # "ok")

UpdateApiPlaylists(byPath, outcome) ==
    /\ xpc = "update"
    /\ byPath => xout = "downloaded" /\ \E i \in DOMAIN xlib : xlib[i].id = "new"
    /\ \E id \in {Located(byPath)} :
          RecordAndSend(id, IF id = "" THEN <<>> ELSE <<id>>, outcome)
    /\ xpc' = "done"
    /\ UNCHANGED <<xrec, xlib, xout>>
    /\ UNCHANGED NotRec

RecInit ==
    /\ CoreIdle
    /\ NormIdle
    /\ SyncIdle
    /\ ResumeIdle
    /\ PathIdle
    /\ WeekIdle
    /\ LoopIdle
    /\ TagIdle
    /\ MpIdle
    /\ CntIdle
    /\ PlIdle
    /\ DebugIdle
    /\ FindIdle
    /\ DedupIdle
    /\ StatIdle
    /\ MonIdle
    /\ RetryIdle
    /\ MbIdle
    /\ xrec \in Recommended
    /\ xlib \in Shelves
    /\ xpc = "download"
    /\ xout = "none"
    /\ xids = <<>>
    /\ xledger = {}
    /\ xpl \in {<<>>, [n \in {LBName} |-> <<>>], [n \in {LBName} |-> <<"old">>]}
    /\ xfault = FALSE

RecNext ==
    \/ \E fetched \in BOOLEAN : DownloadOne(fetched)
    \/ \E pos \in 1..3, indexed \in BOOLEAN : OrganizeAndScan(pos, indexed)
    \/ \E byPath \in BOOLEAN, outcome \in UpdateOutcomes : UpdateApiPlaylists(byPath, outcome)

SpecRec == RecInit /\ [][RecNext]_vars

(* C23: a ledger entry is written only when the track was downloaded in the
   pass, and the library id it carries is the id of the downloaded file. *)
C23_LedgerOnlyDownloadedFile ==
    \A id \in xledger : xout = "downloaded" /\ id = "new"

\* the ids in the source's playlist; none when there is no such playlist
Membership == IF LBName \in DOMAIN xpl THEN Elems(xpl[LBName]) ELSE {}

(* C25: after update_api_playlists has run without a failed request, the
   source's playlist holds exactly the ids of the source's recommended
   tracks that were located in the library. *)
C25_MembershipIsLocated ==
    (xpc = "done" /\ ~xfault) => Membership = Elems(xids)

(***************************************************************************)
(* Track outcomes and the status file: the download loops of               *)
(* process_recommendations and download_playlist                           *)
(***************************************************************************)

\* Bound: the most tracks a pass has.
MaxTracks == 3

NotStat == <<coreVars, normVars, syncVars, resumeVars, monVars, retryVars, mbVars, recVars, dedupVars, findVars, debugVars, plVars, cntVars, mpVars, tagVars, loopVars, weekVars, pathVars>>

\* how the handling of one track can go: a file was downloaded, the track was
\* found in the library, nothing could be downloaded, download_track raised
TrackOutcomes == {"downloaded", "in_library", "no_file", "raised"}

\* the except clause with its counter left out
TallyForgetsRaised(o) ==
    [down |-> IF o = "downloaded" THEN 1 ELSE 0,
     skip |-> IF o = "in_library" THEN 1 ELSE 0,
     fail |-> IF o = "no_file" THEN 1 ELSE 0]

\* what the branches of the loop body add to the counters
Tally(o) ==
    [down |-> IF o = "downloaded" THEN 1 ELSE 0,
     skip |-> IF o = "in_library" THEN 1 ELSE 0,
     fail |-> IF o \in {"no_file", "raised"} THEN 1 ELSE 0]

\* the status the branches of the loop body give the track
StatusOf(o) ==
    CASE o = "downloaded" -> "completed"
      [] o = "in_library" -> "skipped"
      [] OTHER            -> "failed"

Written(status, c) == [status |-> status, down |-> c.down, skip |-> c.skip, fail |-> c.fail]

\* the pass has its tracks. download_playlist without tracks writes "failed"
\* and returns; process_recommendations without recommendations goes
\* straight to its final status
StartStatusPass ==
    /\ spc = "start"
    /\ IF skind = "playlist" /\ stotal = 0
       THEN /\ sfile' = Written("failed", scount)
            /\ spc' = "finished"
            /\ UNCHANGED <<sstat, sidx>>
       ELSE /\ sstat' = [i \in 1..stotal |-> "pending"]
            /\ sidx' = 1
            /\ spc' = "loop"
            /\ sfile' = IF stotal > 0 THEN Written("in_progress", scount) ELSE sfile
    /\ UNCHANGED <<skind, stotal, scount>>
    /\ UNCHANGED NotStat

\* the head of the loop body: the track is in progress
BeginTrack ==
    /\ spc = "loop"
    /\ sidx <= stotal
    /\ sstat' = [sstat EXCEPT ![sidx] = "in_progress"]
    /\ sfile' = Written("in_progress", scount)
    /\ spc' = "track"
    /\ UNCHANGED <<skind, stotal, scount, sidx>>
    /\ UNCHANGED NotStat

\* the rest of the loop body: one branch counts the track and sets its status
EndTrack(o) ==
    /\ spc = "track"
    /\ scount' = [down |-> scount.down + Tally(o).down,
                  skip |-> scount.skip + Tally(o).skip,
                  fail |-> scount.fail + Tally(o).fail]
    /\ sstat' = [sstat EXCEPT ![sidx] = StatusOf(o)]
    /\ sfile' = IF StatusOf(o) = "failed" /\ skind = "recs" THEN sfile
                ELSE Written("in_progress", scount')
    /\ sidx' = sidx + 1
    /\ spc' = "loop"
    /\ UNCHANGED <<skind, stotal>>
    /\ UNCHANGED NotStat

\* after the loop: files organized, playlist updated, final status written
FinishStatusPass ==
    /\ spc = "loop"
    /\ sidx > stotal
    /\ sfile' = Written("completed", scount)
    /\ spc' = "finished"
    /\ UNCHANGED <<skind, stotal, sstat, scount, sidx>>
    /\ UNCHANGED NotStat

StatInit ==
    /\ CoreIdle
    /\ NormIdle
    /\ SyncIdle
    /\ ResumeIdle
    /\ PathIdle
    /\ WeekIdle
    /\ LoopIdle
    /\ TagIdle
    /\ MpIdle
    /\ CntIdle
    /\ PlIdle
    /\ DebugIdle
    /\ FindIdle
    /\ DedupIdle
    /\ MonIdle
    /\ RetryIdle
    /\ MbIdle
    /\ RecIdle
    /\ skind \in {"recs", "playlist"}
    /\ stotal \in 0..MaxTracks
    /\ sstat = <<>>
    /\ scount = [down |-> 0, skip |-> 0, fail |-> 0]
    /\ sidx = 0
    /\ spc = "start"
    /\ sfile = [status |-> "none", down |-> 0, skip |-> 0, fail |-> 0]

StatNext ==
    \/ StartStatusPass
    \/ BeginTrack
    \/ \E o \in TrackOutcomes : EndTrack(o)
    \/ FinishStatusPass

SpecStat == StatInit /\ [][StatNext]_vars

\* the counters add up to the number of tracks, every track has a final
\* status, and the file holds "completed" with the counters
CompletedWithCounts ==
    /\ scount.down + scount.skip + scount.fail = stotal
    /\ \A i \in DOMAIN sstat : sstat[i] \in {"completed", "skipped", "failed"}
    /\ Len(sstat) = stotal
    /\ sfile = Written("completed", scount)

(* C24, as stated: whenever a pass has finished, the counters add up to the
   number of tracks, no track is pending or in progress and the status file
   holds "completed" with these counters. *)
C24_AlwaysCompleted == spc = "finished" => CompletedWithCounts

(* C24, amended: the same for every pass that had tracks to process and for
   process_recommendations without recommendations; download_playlist on a
   playlist from which no track could be extracted writes "failed". *)
C24_CompletedUnlessNoTracks ==
    spc = "finished" =>
        IF skind = "playlist" /\ stotal = 0
        THEN sfile.status = "failed"
        ELSE CompletedWithCounts

\* a finished pass in which one track was downloaded, one was in the library
\* and one raised
C24_Witness ==
    /\ spc = "finished"
    /\ scount = [down |-> 1, skip |-> 1, fail |-> 1]
    /\ sstat[stotal] = "failed"

(***************************************************************************)
(* Deduplication of the merged recommendations in process_recommendations  *)
(***************************************************************************)

\* Bound: the longest merged list.
MaxRecs == 3

NotDedup == <<coreVars, normVars, syncVars, resumeVars, monVars, retryVars, mbVars, recVars, statVars, findVars, debugVars, plVars, cntVars, mpVars, tagVars, loopVars, weekVars, pathVars>>

\* recommendations as the sources return them; artist and title are compared
\* as they are, so "A" and "a" are different artists
RecPool ==
    [artist : {"A", "a"}, title : {"T", "U"}, source : {"ListenBrainz", "Last.fm"}]

track_identifier(rec) == <<rec.artist, rec.title>>

\* the loop keyed by the title alone
UniqueByTitle(recs, seen, i) ==
    LET Step[k \in 0..Len(recs)] ==
            IF k = 0 THEN [out |-> <<>>, seen |-> seen]
            ELSE IF recs[k].title \notin Step[k - 1].seen
                 THEN [out |-> Append(Step[k - 1].out, recs[k]),
                       seen |-> Step[k - 1].seen \cup {recs[k].title}]
                 ELSE Step[k - 1]
    IN  Step[Len(recs)].out

\* the loop: a record is appended when its identifier has not been seen, and
\* its identifier is then seen
RECURSIVE Unique(_, _, _)
Unique(recs, seen, i) ==
    IF i > Len(recs) THEN <<>>
    ELSE IF track_identifier(recs[i]) \notin seen
         THEN <<recs[i]>> \o Unique(recs, seen \cup {track_identifier(recs[i])}, i + 1)
         ELSE Unique(recs, seen, i + 1)

Deduplicate ==
    /\ upc = "merged"
    /\ unique_recommendations' = Unique(all_recommendations, {}, 1)
    /\ upc' = "unique"
    /\ UNCHANGED all_recommendations
    /\ UNCHANGED NotDedup

DedupInit ==
    /\ CoreIdle
    /\ NormIdle
    /\ SyncIdle
    /\ ResumeIdle
    /\ PathIdle
    /\ WeekIdle
    /\ LoopIdle
    /\ TagIdle
    /\ MpIdle
    /\ CntIdle
    /\ PlIdle
    /\ DebugIdle
    /\ FindIdle
    /\ MonIdle
    /\ RetryIdle
    /\ MbIdle
    /\ RecIdle
    /\ StatIdle
    /\ all_recommendations \in UNION {[1..n -> RecPool] : n \in 0..MaxRecs}
    /\ unique_recommendations = <<>>
    /\ upc = "merged"

DedupNext == Deduplicate

SpecDedup == DedupInit /\ [][DedupNext]_vars

\* the positions of the input whose identifier occurs at no earlier position
FirstPositions ==
    {i \in DOMAIN all_recommendations :
        \A j \in 1..(i - 1) :
            track_identifier(all_recommendations[j]) # track_identifier(all_recommendations[i])}

(* C26: the deduplicated list has no two records with the same (artist,
   title), and it is the input restricted to the first occurrence of each
   identifier, in the input's order. *)
C26_FirstOccurrencesInOrder ==
    upc = "unique" =>
        /\ \A i, j \in DOMAIN unique_recommendations :
               i # j => track_identifier(unique_recommendations[i])
                            # track_identifier(unique_recommendations[j])
        /\ Len(unique_recommendations) = Cardinality(FirstPositions)
        /\ \E f \in [DOMAIN unique_recommendations -> FirstPositions] :
               /\ \A i, j \in DOMAIN unique_recommendations : i < j => f[i] < f[j]
               /\ \A i \in DOMAIN unique_recommendations :
                      unique_recommendations[i] = all_recommendations[f[i]]

\* a list in which one identifier came from both sources, with another track
\* between its two occurrences, and the first occurrence was kept
C26_Witness ==
    /\ upc = "unique"
    /\ Len(all_recommendations) = 3
    /\ track_identifier(all_recommendations[1]) = track_identifier(all_recommendations[3])
    /\ all_recommendations[1].source # all_recommendations[3].source
    /\ Len(unique_recommendations) = 2
    /\ unique_recommendations[1] = all_recommendations[1]

(***************************************************************************)
(* Calls of NavidromeAPI._find_actual_song_path                            *)
(***************************************************************************)

NotFind == <<coreVars, normVars, syncVars, resumeVars, monVars, retryVars, mbVars, recVars, statVars, dedupVars, debugVars, plVars, cntVars, mpVars, tagVars, loopVars, weekVars, pathVars>>

\* track records a caller may pass: none, the record of t1 or t2, and a
\* record that carries no path
DetailsPool ==
    {NoDetails} \cup
    UNION {{[found |-> TRUE, id |-> t, title |-> TrackTitle(t), path |-> p,
             userRating |-> 0, starred |-> FALSE] : p \in {"", TrackFile(t)}} : t \in Tracks}

\* one call: the files on disk are those of the initial state
FindActualSongPath(path) ==
    /\ fpc = "called"
    /\ path \in ResolveOutcomes(navidrome_relative_path, song_details)
    /\ found_path' = path
    /\ fpc' = "returned"
    /\ UNCHANGED <<navidrome_relative_path, song_details>>
    /\ UNCHANGED NotFind

FindInit ==
    /\ history = [src \in Sources |-> <<>>]
    /\ lastOp = NoOp
    /\ opCount = 0
    /\ EnvIdle
    /\ ProtIdle
    /\ disk \in SUBSET Files
    /\ disk0 = disk
    /\ plists0 = <<>>
    /\ cpc = "idle"
    /\ chist = <<>>
    /\ csources = <<>>
    /\ cidx = 0
    /\ cplaylist = NoPlaylist
    /\ toRemove = <<>>
    /\ keepIds = <<>>
    /\ report = <<>>
    /\ faults = FALSE
    /\ SchedIdle
    /\ MatchIdle
    /\ NormIdle
    /\ SyncIdle
    /\ ResumeIdle
    /\ PathIdle
    /\ WeekIdle
    /\ LoopIdle
    /\ TagIdle
    /\ MpIdle
    /\ CntIdle
    /\ PlIdle
    /\ DebugIdle
    /\ MonIdle
    /\ RetryIdle
    /\ MbIdle
    /\ RecIdle
    /\ StatIdle
    /\ DedupIdle
    /\ navidrome_relative_path \in {""} \cup {TrackFile(t) : t \in Tracks}
    /\ song_details \in DetailsPool
    /\ found_path = ""
    /\ fpc = "called"

FindNext == \E path \in Files \cup {NoFile, LibraryRoot} : FindActualSongPath(path)

SpecFind == FindInit /\ [][FindNext]_vars

(* C27: whatever the reported path and the track record, the resolver
   returns none or the path of an existing regular file, never a directory. *)
C27_NoneOrRegularFile ==
    fpc = "returned" => (found_path = NoFile \/ IsFile(found_path))

\* what the call returns for the evaluated track when the record store is
\* readable
StoreEvaluation == PlaylistRows(AnnotationRows(EmptyResult, evalTrack, 1), evalTrack, 1)

(* C28: a result the fallback returned is never stronger than the result
   the record store gives for the same track in the same state: protected on
   the fallback implies protected from the store, and the fallback's
   max_rating is at most the store's. *)
C28_FallbackWeaker ==
    (Returned /\ dbMode = "absent") =>
        /\ evalResult.protected => StoreEvaluation.protected
        /\ evalResult.max_rating <= StoreEvaluation.max_rating

\* the fallback protected the track on the admin's rating of 4 while the
\* store also sees the guest's 5
C28_Witness ==
    /\ Returned
    /\ dbMode = "absent"
    /\ adminUser = "admin"
    /\ evalResult.protected
    /\ evalResult.max_rating = ProtectRating
    /\ StoreEvaluation.max_rating = MaxRating

\* the fallback found nothing where the store protects the track
C28_WitnessStrictlyWeaker ==
    /\ Returned
    /\ dbMode = "absent"
    /\ ~evalResult.protected
    /\ StoreEvaluation.protected

(***************************************************************************)
(* Debug cleanup: NavidromeAPI.process_debug_cleanup                       *)
(***************************************************************************)

\* everything the pass leaves alone: it writes the ledger, the playlists and
\* the disk
DebugFrame == <<lastOp, opCount, library, ann, dbMode, adminUser, apiDown, protVars,
               disk0, plists0, cpc, chist, csources, cidx, cplaylist, toRemove, keepIds,
               report, faults, schedVars, matchVars, normVars, syncVars, resumeVars, monVars, retryVars, mbVars, recVars, statVars, dedupVars, findVars,
               plVars,
               cntVars,
               mpVars,
               tagVars,
               loopVars,
               weekVars,
               pathVars>>

DebugTrack == ghist[Head(gsources)][gidx]
AtDebugEntry == gpc = "entries" /\ gsources # <<>> /\ gidx <= Len(ghist[Head(gsources)])

SummaryLine(track, what) ==
    [source |-> Head(gsources), artist |-> track.artist, title |-> track.title,
     what |-> what]

\* the history is loaded
DebugStart ==
    /\ gpc = "idle"
    /\ ghist' = history
    /\ gsources' = KeysOf(history)
    /\ gidx' = 1
    /\ gpc' = "entries"
    /\ UNCHANGED <<remaining_tracks, remaining_history, summary, history, plists, disk>>
    /\ UNCHANGED DebugFrame

\* the loop body for one entry: no id, gone from the server, protected, or
\* the resolved file is deleted; the entry stays in remaining_tracks when it
\* has no id, when the file was not found and when the deletion failed
DebugEntry(path, removeOk) ==
    /\ AtDebugEntry
    /\ LET track == DebugTrack
           details == IF track.navidrome_id # ""
                      THEN SongDetails(track.navidrome_id, UserNd) ELSE NoDetails
       IN  IF track.navidrome_id = ""
           THEN /\ removeOk /\ path = NoFile
                /\ remaining_tracks' = Append(remaining_tracks, track)
                /\ summary' = Append(summary, SummaryLine(track, "failed"))
                /\ UNCHANGED disk
           ELSE IF ~details.found
           THEN /\ removeOk /\ path = NoFile
                /\ summary' = Append(summary, SummaryLine(track, "gone"))
                /\ UNCHANGED <<remaining_tracks, disk>>
           ELSE IF CheckSongProtection(track.navidrome_id).protected
           THEN /\ removeOk /\ path = NoFile
                /\ summary' = Append(summary, SummaryLine(track, "kept"))
                /\ UNCHANGED <<remaining_tracks, disk>>
           ELSE /\ path \in ResolveOutcomes(track.file_path, details)
                /\ IF path # NoFile /\ IsFile(path) /\ removeOk
                   THEN /\ disk' = disk \ {path}
                        /\ summary' = Append(summary, SummaryLine(track, "file_deleted"))
                        /\ UNCHANGED remaining_tracks
                   ELSE /\ removeOk \/ (path # NoFile /\ IsFile(path))
                        /\ remaining_tracks' = Append(remaining_tracks, track)
                        /\ summary' = Append(summary, SummaryLine(track, "failed"))
                        /\ UNCHANGED disk
    /\ gidx' = gidx + 1
    /\ UNCHANGED <<ghist, gsources, remaining_history, gpc, history, plists>>
    /\ UNCHANGED DebugFrame

\* a getSong request fails: the exception leaves the pass, nothing is saved
DebugLookupRaises ==
    /\ AtDebugEntry
    /\ DebugTrack.navidrome_id # ""
    /\ gpc' = "aborted"
    /\ UNCHANGED <<ghist, gsources, gidx, remaining_tracks, remaining_history, summary,
                   history, plists, disk>>
    /\ UNCHANGED DebugFrame

\* a source is through: its remaining entries, if any, go to the history to
\* save
DebugSourceDone ==
    /\ gpc = "entries"
    /\ gsources # <<>>
    /\ gidx > Len(ghist[Head(gsources)])
    /\ remaining_history' = IF remaining_tracks # <<>>
                            THEN remaining_history @@ (Head(gsources) :> remaining_tracks)
                            ELSE remaining_history
    /\ gsources' = Tail(gsources)
    /\ gidx' = 1
    /\ remaining_tracks' = <<>>
    /\ UNCHANGED <<ghist, summary, gpc, history, plists, disk>>
    /\ UNCHANGED DebugFrame

\* the engine's playlists are emptied and the remaining history is saved
DebugFinish ==
    /\ gpc = "entries"
    /\ gsources = <<>>
    /\ plists' = [n \in DOMAIN plists |-> IF n \in EnginePlaylists THEN <<>> ELSE plists[n]]
    /\ history' = remaining_history
    /\ gpc' = "done"
    /\ UNCHANGED <<ghist, gsources, gidx, remaining_tracks, remaining_history, summary, disk>>
    /\ UNCHANGED DebugFrame

DebugNext ==
    \/ DebugStart
    \/ \E path \in Files \cup {NoFile, LibraryRoot}, ok \in BOOLEAN : DebugEntry(path, ok)
    \/ DebugLookupRaises
    \/ DebugSourceDone
    \/ DebugFinish

SpecDebug == CleanInit /\ [][DebugNext]_vars

\* the entry of a summary line is in the saved history
Saved(line) ==
    /\ line.source \in DOMAIN history
    /\ \E i \in DOMAIN history[line.source] :
          /\ history[line.source][i].artist = line.artist
          /\ history[line.source][i].title = line.title

(* C29: when the debug pass has ended, the saved history lacks exactly the
   entries whose file the pass deleted: every other entry it handled is
   still there. *)
C29_OnlyDeletedLeaveHistory ==
    gpc = "done" =>
        \A k \in DOMAIN summary : Saved(summary[k]) <=> summary[k].what # "file_deleted"

(***************************************************************************)
(* Playlist cleanup: cleanup_playlist of cleanup_playlist.py               *)
(***************************************************************************)

\* everything the pass leaves alone: it writes the history file, the
\* playlist and the disk
PlFrame == <<ledgerVars, library, ann, dbMode, adminUser, apiDown, protVars,
            disk0, plists0, cpc, chist, csources, cidx, cplaylist, toRemove, keepIds,
            report, faults, schedVars, matchVars, normVars, syncVars, resumeVars, monVars, retryVars, mbVars, recVars, statVars, dedupVars, findVars, debugVars,
               cntVars,
               mpVars,
               tagVars,
               loopVars,
               weekVars,
               pathVars>>

\* the playlist the history file names
DownloadedPlaylist == RoadTrip

\* the tracks download_playlist may have recorded
PlaylistHistories ==
    {<<>>, <<Entry("t1")>>, <<Entry("t1"), Entry("t2")>>, <<Entry("t2"), Entry("t1")>>,
     <<EntryNoId("t1"), Entry("t2")>>}

\* _remove_navidrome_playlist: the playlist, when it exists, is emptied
RemoveNavidromePlaylist(pl) ==
    [n \in DOMAIN pl |-> IF n = DownloadedPlaylist THEN <<>> ELSE pl[n]]

\* the library ids download_playlist collected for the playlist
all_navidrome_ids(tracks) ==
    LET withId == SelectSeq(tracks, LAMBDA t : t.navidrome_id # "")
    IN  [i \in DOMAIN withId |-> withId[i].navidrome_id]

\* download_playlist created or updated the playlist with the ids it
\* collected and saved the history of the tracks it downloaded
SavePlaylistHistory(tracks) ==
    /\ ppc = "idle"
    /\ phistory' = [exists |-> TRUE, tracks |-> tracks]
    /\ plists' = IF all_navidrome_ids(tracks) = <<>> THEN plists
                 ELSE [n \in DOMAIN plists \cup {DownloadedPlaylist} |->
                         IF n = DownloadedPlaylist THEN all_navidrome_ids(tracks)
                         ELSE plists[n]]
    /\ ppc' = "saved"
    /\ UNCHANGED <<ptracks, pidx, premaining, plog, disk>>
    /\ UNCHANGED PlFrame

\* the history file is read; without tracks the playlist is emptied and the
\* file removed at once
PlaylistCleanupStart ==
    /\ ppc = "saved"
    /\ ptracks' = phistory.tracks
    /\ IF phistory.tracks = <<>>
       THEN /\ plists' = RemoveNavidromePlaylist(plists)
            /\ phistory' = [exists |-> FALSE, tracks |-> <<>>]
            /\ ppc' = "done"
            /\ UNCHANGED pidx
       ELSE /\ pidx' = 1
            /\ ppc' = "entries"
            /\ UNCHANGED <<plists, phistory>>
    /\ UNCHANGED <<premaining, plog, disk>>
    /\ UNCHANGED PlFrame

AtPlaylistEntry == ppc = "entries" /\ pidx <= Len(ptracks)

PlLine(track, what) == [id |-> track.navidrome_id, title |-> track.title, what |-> what]

\* the loop body for one track: discarded without id, already gone, kept
\* when protected, else the resolved file is deleted; only a failed deletion
\* puts the track into remaining_tracks
PlaylistEntry(path, removeOk) ==
    /\ AtPlaylistEntry
    /\ LET track == ptracks[pidx]
           details == IF track.navidrome_id # ""
                      THEN SongDetails(track.navidrome_id, UserNd) ELSE NoDetails
       IN  IF track.navidrome_id = ""
           THEN /\ removeOk /\ path = NoFile
                /\ plog' = Append(plog, PlLine(track, "never_downloaded"))
                /\ UNCHANGED <<premaining, disk>>
           ELSE IF ~details.found
           THEN /\ removeOk /\ path = NoFile
                /\ plog' = Append(plog, PlLine(track, "gone"))
                /\ UNCHANGED <<premaining, disk>>
           ELSE IF CheckSongProtection(track.navidrome_id).protected
           THEN /\ removeOk /\ path = NoFile
                /\ plog' = Append(plog, PlLine(track, "kept"))
                /\ UNCHANGED <<premaining, disk>>
           ELSE /\ path \in ResolveOutcomes(track.file_path, details)
                /\ IF path # NoFile /\ PathExists(path)
                   THEN IF IsFile(path) /\ removeOk
                        THEN /\ disk' = disk \ {path}
                             /\ plog' = Append(plog, PlLine(track, "deleted"))
                             /\ UNCHANGED premaining
                        ELSE /\ premaining' = Append(premaining, track)
                             /\ plog' = Append(plog, PlLine(track, "delete_failed"))
                             /\ UNCHANGED disk
                   ELSE /\ removeOk
                        /\ plog' = Append(plog, PlLine(track, "file_not_found"))
                        /\ UNCHANGED <<premaining, disk>>
    /\ pidx' = pidx + 1
    /\ UNCHANGED <<phistory, ptracks, ppc, plists>>
    /\ UNCHANGED PlFrame

\* a getSong request fails: the exception leaves cleanup_playlist
PlaylistLookupRaises ==
    /\ AtPlaylistEntry
    /\ ptracks[pidx].navidrome_id # ""
    /\ ppc' = "aborted"
    /\ UNCHANGED <<phistory, ptracks, pidx, premaining, plog, plists, disk>>
    /\ UNCHANGED PlFrame

\* after the loop: the playlist is emptied; the history file is rewritten
\* with the remaining tracks, or removed when there are none
PlaylistCleanupFinish ==
    /\ ppc = "entries"
    /\ pidx > Len(ptracks)
    /\ plists' = RemoveNavidromePlaylist(plists)
    /\ phistory' = IF premaining # <<>>
                   THEN [exists |-> TRUE, tracks |-> premaining]
                   ELSE [exists |-> FALSE, tracks |-> <<>>]
    /\ ppc' = "done"
    /\ UNCHANGED <<ptracks, pidx, premaining, plog, disk>>
    /\ UNCHANGED PlFrame

PlNext ==
    \/ \E tracks \in PlaylistHistories : SavePlaylistHistory(tracks)
    \/ PlaylistCleanupStart
    \/ \E path \in Files \cup {NoFile, LibraryRoot}, ok \in BOOLEAN : PlaylistEntry(path, ok)
    \/ PlaylistLookupRaises
    \/ PlaylistCleanupFinish

SpecPl == CleanInit /\ [][PlNext]_vars

InPlaylistHistory(line) ==
    /\ phistory.exists
    /\ \E i \in DOMAIN phistory.tracks :
          /\ phistory.tracks[i].navidrome_id = line.id
          /\ phistory.tracks[i].title = line.title

(* C30: when the playlist cleanup has ended, the file of every track it
   found protected is still on disk if it was there before, every track
   whose file could not be removed is in the history file, and the history
   file is gone exactly when no such track remains. *)
C30_ProtectedKeptFailedRetried ==
    ppc = "done" =>
        /\ \A k \in DOMAIN plog :
              /\ plog[k].what = "kept" /\ TrackFile(plog[k].id) \in disk0
                    => TrackFile(plog[k].id) \in disk
              /\ plog[k].what = "delete_failed" => InPlaylistHistory(plog[k])
        /\ phistory.exists <=> \E k \in DOMAIN plog : plog[k].what = "delete_failed"

\* an account rated the track 4 or more or starred it, or the track was in a
\* playlist other than the downloaded one when the cleanup began
SignalBesidesOwnPlaylist(id) ==
    \/ \E a \in Accounts : ann[a][id].rating >= ProtectRating \/ ann[a][id].starred
    \/ \E n \in DOMAIN plists0 \ {DownloadedPlaylist} : id \in Elems(plists0[n])

(* C31: the playlist cleanup keeps a track as protected only on a rating of
   4 or more, a star, or membership in a playlist other than the downloaded
   playlist itself; being in the playlist that is cleaned up protects no
   track. *)
C31_OwnPlaylistDoesNotProtect ==
    ppc = "done" =>
        \A k \in DOMAIN plog : plog[k].what = "kept" => SignalBesidesOwnPlaylist(plog[k].id)

(***************************************************************************)
(* Track count of a monitored playlist: _sync_playlist and mark_synced     *)
(***************************************************************************)

\* Bounds: the sync attempts of a run, and the most tracks a playlist has.
MaxAttempts == 3
MaxCount == 3

NotCnt == <<coreVars, normVars, syncVars, resumeVars, monVars, retryVars, mbVars, recVars, statVars, dedupVars, findVars, debugVars, plVars, mpVars, tagVars, loopVars, weekVars, pathVars>>

\* extract_playlist_tracks of one attempt: it raises, or returns a list
Extractions ==
    {[kind |-> "raised", count |-> 0]} \cup {[kind |-> "tracks", count |-> n] : n \in 0..MaxCount}

\* track_count of _sync_playlist: None (here -1) unless a non-empty list came
TrackCount(ex) == IF ex.kind = "tracks" /\ ex.count > 0 THEN ex.count ELSE -1

\* mark_synced: last_synced is set, last_track_count only when a count is
\* passed; an entry that is not in the file is not created
MarkSynced(entry, now, track_count) ==
    IF ~entry.exists THEN entry
    ELSE [entry EXCEPT !.last_synced = now,
                       !.last_track_count = IF track_count # -1 THEN track_count ELSE @]

\* one _sync_playlist: extraction, download_playlist (not reached when the
\* extraction raised; its own exception is caught as well), mark_synced
SyncAttempt(ex, download) ==
    /\ cattempts < MaxAttempts
    /\ ex.kind = "raised" => download = "none"
    /\ ex.kind = "tracks" => download \in {"returned", "raised"}
    /\ cattempts' = cattempts + 1
    /\ cobserved' = [kind |-> ex.kind, count |-> ex.count, download |-> download]
    /\ centry' = MarkSynced(centry, cattempts', TrackCount(ex))
    /\ UNCHANGED NotCnt

CntInit ==
    /\ CoreIdle
    /\ NormIdle
    /\ SyncIdle
    /\ ResumeIdle
    /\ PathIdle
    /\ WeekIdle
    /\ LoopIdle
    /\ TagIdle
    /\ MpIdle
    /\ MonIdle
    /\ RetryIdle
    /\ MbIdle
    /\ RecIdle
    /\ StatIdle
    /\ DedupIdle
    /\ FindIdle
    /\ DebugIdle
    /\ PlIdle
    /\ centry \in [exists : BOOLEAN, last_synced : {0}, last_track_count : 0..MaxCount]
    /\ cattempts = 0
    /\ cobserved = [kind |-> "none", count |-> 0, download |-> "none"]

CntNext ==
    \E ex \in Extractions, download \in {"none", "returned", "raised"} : SyncAttempt(ex, download)

SpecCnt == CntInit /\ [][CntNext]_vars

(* C32: after a sync attempt whose extraction returned a list, empty or
   not, the entry's last_track_count is the length of that list. *)
C32_CountOfLastAttempt ==
    (cattempts > 0 /\ centry.exists /\ cobserved.kind = "tracks")
        => centry.last_track_count = cobserved.count

(***************************************************************************)
(* The monitored-playlists file under concurrent calls: _load_playlists,   *)
(* _save_playlists and the four functions that read, modify and write it   *)
(***************************************************************************)

NotMp == <<coreVars, normVars, syncVars, resumeVars, monVars, retryVars, mbVars, recVars, statVars, dedupVars, findVars, debugVars, plVars, cntVars, tagVars, loopVars, weekVars, pathVars>>

\* two request threads and the thread that runs mark_synced
MpThreads == {"web1", "web2", "sync"}
MpUrls == {"u1", "u2"}
FirstId == 1

NewEntry(id, url) == [id |-> id, url |-> url, enabled |-> TRUE, synced |-> FALSE]

IdleThread == [op |-> "none", arg |-> "", id |-> 0, pc |-> "idle", loaded |-> <<>>,
               wrote |-> FALSE, ret |-> 0]

\* the positions of a list that hold the url (the username is the same for
\* every call of the model) or the id
WithUrl(list, url) == {i \in DOMAIN list : list[i].url = url}
WithId(list, id) == {i \in DOMAIN list : list[i].id = id}

\* _load_playlists, the first statement of each function: the lock is held
\* for the read alone
MpLoad(t, op, url, id) ==
    /\ mthread[t].pc = "idle"
    /\ op \in (IF t = "sync" THEN {"mark"} ELSE {"add", "update", "remove"})
    /\ IF op = "add" THEN id = 0 ELSE url = "" /\ id = FirstId
    /\ op = "add" => url # ""
    /\ mthread' = [mthread EXCEPT ![t] = [op |-> op, arg |-> url, id |-> id, pc |-> "loaded",
                                          loaded |-> mfile, wrote |-> FALSE, ret |-> 0]]
    /\ UNCHANGED <<mfile, muuid, mremoved, mdisabled>>
    /\ UNCHANGED NotMp

\* add_monitored_playlist without its duplicate test
AddAlways(list, url, id) ==
    [list |-> Append(list, NewEntry(id, url)), wrote |-> TRUE, ret |-> id]

\* add_monitored_playlist after the load: the entry with the url is returned,
\* else a new entry is appended and the list saved
AddTo(list, url, id) ==
    IF WithUrl(list, url) # {}
    THEN [list |-> list, wrote |-> FALSE,
          ret |-> list[CHOOSE i \in WithUrl(list, url) : \A j \in WithUrl(list, url) : i <= j].id]
    ELSE [list |-> Append(list, NewEntry(id, url)), wrote |-> TRUE, ret |-> id]

\* update_monitored_playlist with {"enabled": false}
DisableIn(list, id) ==
    IF WithId(list, id) # {}
    THEN [list |-> [i \in DOMAIN list |->
                       IF list[i].id = id THEN [list[i] EXCEPT !.enabled = FALSE] ELSE list[i]],
          wrote |-> TRUE, ret |-> id]
    ELSE [list |-> list, wrote |-> FALSE, ret |-> 0]

\* remove_monitored_playlist
RemoveFrom(list, id) ==
    LET rest == SelectSeq(list, LAMBDA p : p.id # id)
    IN  IF Len(rest) < Len(list)
        THEN [list |-> rest, wrote |-> TRUE, ret |-> id]
        ELSE [list |-> list, wrote |-> FALSE, ret |-> 0]

\* mark_synced: the list is saved whether the id was found or not
MarkIn(list, id) ==
    [list |-> [i \in DOMAIN list |->
                  IF list[i].id = id THEN [list[i] EXCEPT !.synced = TRUE] ELSE list[i]],
     wrote |-> TRUE, ret |-> 0]

Outcome(th, fresh) ==
    CASE th.op = "add"    -> AddTo(th.loaded, th.arg, fresh)
      [] th.op = "update" -> DisableIn(th.loaded, th.id)
      [] th.op = "remove" -> RemoveFrom(th.loaded, th.id)
      [] OTHER            -> MarkIn(th.loaded, th.id)

\* the rest of the function: the list the thread loaded is changed and, if
\* the function saves, written over the file
MpSave(t) ==
    /\ mthread[t].pc = "loaded"
    /\ \E out \in {Outcome(mthread[t], muuid)} :
          /\ mfile' = IF out.wrote THEN out.list ELSE mfile
          /\ mthread' = [mthread EXCEPT ![t].pc = "done", ![t].wrote = out.wrote,
                                        ![t].ret = out.ret]
          /\ muuid' = IF mthread[t].op = "add" /\ out.wrote THEN muuid + 1 ELSE muuid
          /\ mremoved' = IF mthread[t].op = "remove" /\ out.wrote
                         THEN mremoved \cup {mthread[t].id} ELSE mremoved
          /\ mdisabled' = IF mthread[t].op = "update" /\ out.wrote
                          THEN mdisabled \cup {mthread[t].id} ELSE mdisabled
    /\ UNCHANGED NotMp

MpInit ==
    /\ CoreIdle
    /\ NormIdle
    /\ SyncIdle
    /\ ResumeIdle
    /\ PathIdle
    /\ WeekIdle
    /\ LoopIdle
    /\ TagIdle
    /\ MonIdle
    /\ RetryIdle
    /\ MbIdle
    /\ RecIdle
    /\ StatIdle
    /\ DedupIdle
    /\ FindIdle
    /\ DebugIdle
    /\ PlIdle
    /\ CntIdle
    /\ mfile \in {<<>>, <<NewEntry(FirstId, "u1")>>}
    /\ mthread = [t \in MpThreads |-> IdleThread]
    /\ muuid = FirstId + 1
    /\ mremoved = {}
    /\ mdisabled = {}

MpNext ==
    \/ \E t \in MpThreads, op \in {"add", "update", "remove", "mark"},
          url \in MpUrls \cup {""}, id \in {0, FirstId} : MpLoad(t, op, url, id)
    \/ \E t \in MpThreads : MpSave(t)

SpecMp == MpInit /\ [][MpNext]_vars

(* C33: the file never holds two entries with the same url and username,
   and an add whose loaded list has an entry for the url returns that entry
   and writes nothing. *)
C33_OneEntryPerUrl ==
    /\ \A i, j \in DOMAIN mfile : mfile[i].url = mfile[j].url => i = j
    /\ \A t \in MpThreads :
          (mthread[t].op = "add" /\ mthread[t].pc = "done"
              /\ WithUrl(mthread[t].loaded, mthread[t].arg) # {})
          => /\ ~mthread[t].wrote
             /\ \E i \in WithUrl(mthread[t].loaded, mthread[t].arg) :
                   mthread[t].loaded[i].id = mthread[t].ret

\* both request threads added the same url at the same time, each from a
\* list without it, and the file holds one entry
C33_Witness ==
    /\ mthread["web1"].op = "add" /\ mthread["web2"].op = "add"
    /\ mthread["web1"].arg = mthread["web2"].arg
    /\ mthread["web1"].pc = "done" /\ mthread["web2"].pc = "done"
    /\ mthread["web1"].wrote /\ mthread["web2"].wrote
    /\ Len(mfile) = 1

\* an add of a url that was in the loaded list returned the entry
C33_WitnessRepeated ==
    \E t \in MpThreads :
        /\ mthread[t].op = "add" /\ mthread[t].pc = "done"
        /\ ~mthread[t].wrote /\ mthread[t].ret = FirstId

AllReturned == \A t \in MpThreads : mthread[t].pc \in {"idle", "done"}

(* C34: when every call has returned, no entry whose removal returned True
   is in the file, and every entry whose disabling was saved is disabled if
   it is still there. *)
C34_NoLostUpdate ==
    AllReturned =>
        /\ \A id \in mremoved : WithId(mfile, id) = {}
        /\ \A id \in mdisabled : \A i \in WithId(mfile, id) : ~mfile[i].enabled

(***************************************************************************)
(* A download pass adding to the ledger while the debug cleanup runs       *)
(***************************************************************************)

\* the track the pass downloaded
PassEntry ==
    [artist |-> <<"c">>, title |-> <<"z">>, navidrome_id |-> "t3", file_path |-> "f3"]

\* update_api_playlists writes the ledger entry of the track; the request
\* thread of the cleanup may be anywhere in process_debug_cleanup
DownloadPassAdds ==
    /\ opCount = 0
    /\ Add("Last.fm", PassEntry.artist, PassEntry.title, PassEntry.navidrome_id,
           PassEntry.file_path)

RaceNext ==
    \/ DebugNext
    \/ DownloadPassAdds

SpecRace == CleanInit /\ [][RaceNext]_vars

HasPassEntry(h) ==
    /\ "Last.fm" \in DOMAIN h
    /\ \E i \in DOMAIN h["Last.fm"] : SameTrack(h["Last.fm"][i], PassEntry.artist, PassEntry.title)

(* C35: an entry the download pass added after the cleanup had loaded the
   ledger, so that the cleanup never handled its key, is in the ledger when
   the cleanup has ended. *)
C35_AddedEntrySurvives ==
    (gpc = "done" /\ lastOp.kind = "add" /\ ~HasPassEntry(ghist)) => HasPassEntry(history)

(***************************************************************************)
(* Tag-mode cleanup: the loop body of process_navidrome_library            *)
(***************************************************************************)

NotTag == <<coreVars, normVars, syncVars, resumeVars, monVars, retryVars, mbVars, recVars, statVars, dedupVars, findVars, debugVars, plVars, cntVars, mpVars, loopVars, weekVars, pathVars>>

\* the comments a song may carry: one of the four recommendation comments,
\* or another text
SongComments == {"lb", "lastfm", "album", "llm", "other"}

\* has_recommendation_comment: the album and LLM comments of the instance
\* may be None, which no comment equals
HasRecommendationComment(song, conf) ==
    \/ song.comment \in {"lb", "lastfm"}
    \/ song.comment = "album" /\ conf.album_comment
    \/ song.comment = "llm" /\ conf.llm_comment

\* the if/elif chain over comment and flags: "delete", "strip" (the comment
\* is removed and the file kept) or "none"
TagDecision(song, conf) ==
    LET user_rating == IF song.starred THEN StarRating ELSE song.userRating
        byRating == IF user_rating >= ProtectRating THEN "strip" ELSE "delete"
    IN  IF ~HasRecommendationComment(song, conf) THEN "none"
        ELSE IF song.comment = "lb" /\ conf.listenbrainz_enabled THEN byRating
        ELSE IF song.comment = "lastfm" /\ conf.lastfm_enabled THEN byRating
        ELSE IF song.comment = "album" THEN byRating
        ELSE IF song.comment = "llm" /\ conf.llm_enabled THEN byRating
        ELSE IF ~conf.listenbrainz_enabled /\ ~conf.lastfm_enabled THEN "delete"
        ELSE "none"

\* the loop body for one song of the library
ProcessSong ==
    /\ tdone = "found"
    /\ tdone' = TagDecision(tsong, tconf)
    /\ UNCHANGED <<tsong, tconf>>
    /\ UNCHANGED NotTag

TagInit ==
    /\ CoreIdle
    /\ NormIdle
    /\ SyncIdle
    /\ ResumeIdle
    /\ PathIdle
    /\ WeekIdle
    /\ LoopIdle
    /\ MonIdle
    /\ RetryIdle
    /\ MbIdle
    /\ RecIdle
    /\ StatIdle
    /\ DedupIdle
    /\ FindIdle
    /\ DebugIdle
    /\ PlIdle
    /\ CntIdle
    /\ MpIdle
    /\ tsong \in [comment : SongComments, userRating : RatingValues, starred : BOOLEAN]
    /\ tconf \in [listenbrainz_enabled : BOOLEAN, lastfm_enabled : BOOLEAN,
                  llm_enabled : BOOLEAN, album_comment : BOOLEAN, llm_comment : BOOLEAN]
    /\ tdone = "found"

TagNext == ProcessSong

SpecTag == TagInit /\ [][TagNext]_vars

(* C36: a song whose effective rating (5 if starred, else the user rating)
   is 4 or 5 is never deleted, whatever its comment and the flags. *)
C36_RatedFourOrFiveKept ==
    (tsong.starred \/ tsong.userRating >= ProtectRating) => tdone # "delete"

(***************************************************************************)
(* Scheduler thread: start_scheduler, stop_scheduler, _scheduler_loop      *)
(***************************************************************************)

\* Bounds: the calls of a run, and the due entries of one pass over the file.
MaxCalls == 4
DueEntries == 2

NotLoop == <<coreVars, normVars, syncVars, resumeVars, monVars, retryVars, mbVars, recVars, statVars, dedupVars, findVars, debugVars, plVars, cntVars, mpVars, tagVars, weekVars, pathVars>>

\* Thread.is_alive()
IsAlive(i) == i \in DOMAIN lthread /\ lthread[i] # "dead"
InLoop(i) == i \in DOMAIN lthread /\ lthread[i] \in {"while", "pass", "sleep"}

\* start_scheduler: nothing when the thread of the last start is alive, else
\* a new thread is created and started
StartScheduler ==
    /\ lcalls < MaxCalls
    /\ lcalls' = lcalls + 1
    /\ llast' = "start"
    /\ IF lcurrent # 0 /\ IsAlive(lcurrent)
       THEN UNCHANGED <<lthread, lcurrent, ltodo>>
       ELSE /\ lthread' = Append(lthread, "created")
            /\ ltodo' = Append(ltodo, 0)
            /\ lcurrent' = Len(lthread) + 1
    /\ UNCHANGED <<lrunning, lstopped>>
    /\ UNCHANGED NotLoop

\* stop_scheduler: the flag is cleared
StopScheduler ==
    /\ lcalls < MaxCalls
    /\ lcalls' = lcalls + 1
    /\ llast' = "stop"
    /\ lrunning' = FALSE
    /\ UNCHANGED <<lthread, lcurrent, ltodo, lstopped>>
    /\ UNCHANGED NotLoop

\* the first statement of _scheduler_loop, run by the new thread
LoopBegins(i) ==
    /\ i \in DOMAIN lthread /\ lthread[i] = "created"
    /\ lrunning' = TRUE
    /\ lthread' = [lthread EXCEPT ![i] = "while"]
    /\ UNCHANGED <<lcurrent, ltodo, lcalls, llast, lstopped>>
    /\ UNCHANGED NotLoop

\* the while test: the file is loaded for a pass, or the thread ends
LoopTest(i) ==
    /\ i \in DOMAIN lthread /\ lthread[i] = "while"
    /\ IF lrunning
       THEN /\ lthread' = [lthread EXCEPT ![i] = "pass"]
            /\ ltodo' = [ltodo EXCEPT ![i] = DueEntries]
       ELSE /\ lthread' = [lthread EXCEPT ![i] = "dead"]
            /\ UNCHANGED ltodo
    /\ UNCHANGED <<lcurrent, lrunning, lcalls, llast, lstopped>>
    /\ UNCHANGED NotLoop

\* the for loop of a pass: the next due entry is synced, the flag is not
\* looked at; after the last one the thread goes to sleep
LoopSyncs(i) ==
    /\ i \in DOMAIN lthread /\ lthread[i] = "pass"
    /\ IF ltodo[i] > 0
       THEN /\ ltodo' = [ltodo EXCEPT ![i] = @ - 1]
            /\ lstopped' = (lstopped \/ ~lrunning)
            /\ UNCHANGED lthread
       ELSE /\ lthread' = [lthread EXCEPT ![i] = "sleep"]
            /\ UNCHANGED <<ltodo, lstopped>>
    /\ UNCHANGED <<lcurrent, lrunning, lcalls, llast>>
    /\ UNCHANGED NotLoop

\* the sleep of up to 300 seconds, left early when the flag is off
LoopWakes(i) ==
    /\ i \in DOMAIN lthread /\ lthread[i] = "sleep"
    /\ lthread' = [lthread EXCEPT ![i] = "while"]
    /\ UNCHANGED <<lcurrent, lrunning, ltodo, lcalls, llast, lstopped>>
    /\ UNCHANGED NotLoop

LoopInit ==
    /\ CoreIdle
    /\ NormIdle
    /\ SyncIdle
    /\ ResumeIdle
    /\ PathIdle
    /\ WeekIdle
    /\ MonIdle
    /\ RetryIdle
    /\ MbIdle
    /\ RecIdle
    /\ StatIdle
    /\ DedupIdle
    /\ FindIdle
    /\ DebugIdle
    /\ PlIdle
    /\ CntIdle
    /\ MpIdle
    /\ TagIdle
    /\ lthread = <<>>
    /\ lcurrent = 0
    /\ lrunning = FALSE
    /\ ltodo = <<>>
    /\ lcalls = 0
    /\ llast = "none"
    /\ lstopped = FALSE

LoopNext ==
    \/ StartScheduler
    \/ StopScheduler
    \/ \E i \in 1..MaxCalls : LoopBegins(i)
    \/ \E i \in 1..MaxCalls : LoopTest(i)
    \/ \E i \in 1..MaxCalls : LoopSyncs(i)
    \/ \E i \in 1..MaxCalls : LoopWakes(i)

SpecLoop == LoopInit /\ [][LoopNext]_vars

(* C37: at most one scheduler loop runs; while the last call is a start a
   thread is alive; once the last call is a stop the flag stays off, so that
   the loop ends, and no sync is started with the flag off. *)
C37_OneLoopStartStop ==
    /\ Cardinality({i \in DOMAIN lthread : IsAlive(i)}) <= 1
    /\ llast = "start" => \E i \in DOMAIN lthread : IsAlive(i)
    /\ llast = "stop" => ~lrunning
    /\ ~lstopped

(***************************************************************************)
(* The weekly playlist seen marker: ListenBrainzAPI.has_playlist_changed   *)
(***************************************************************************)

\* Bounds: the weeks of a run and the passes started.
MaxWeeks == 3
MaxPasses == 4

NotWeek == <<coreVars, normVars, syncVars, resumeVars, monVars, retryVars, mbVars, recVars, statVars, dedupVars, findVars, debugVars, plVars, cntVars, mpVars, tagVars, loopVars, pathVars>>

\* ListenBrainz publishes the playlist of the next week
NewWeek ==
    /\ wlatest < MaxWeeks
    /\ wlatest' = wlatest + 1
    /\ UNCHANGED <<wsaved, wpass, wprocessed, wpasses>>
    /\ UNCHANGED NotWeek

\* has_playlist_changed: the latest name is compared with the saved one and,
\* when they differ, saved at once
HasPlaylistChanged == [changed |-> wlatest # wsaved, saved |-> wlatest]

\* process_recommendations up to the fetching of the recommendations: with
\* the bypass flag the check is not made; an unchanged playlist is skipped
WeeklyPassStarts(bypass) ==
    /\ wpass = 0
    /\ wpasses < MaxPasses
    /\ wpasses' = wpasses + 1
    /\ IF bypass
       THEN /\ wpass' = wlatest
            /\ UNCHANGED wsaved
       ELSE /\ wsaved' = HasPlaylistChanged.saved
            /\ wpass' = IF HasPlaylistChanged.changed THEN wlatest ELSE 0
    /\ UNCHANGED <<wlatest, wprocessed>>
    /\ UNCHANGED NotWeek

\* the pass runs to its end or is aborted: an exception after the fetch, or
\* the process is stopped
WeeklyPassEnds(completed) ==
    /\ wpass # 0
    /\ wprocessed' = IF completed THEN wprocessed \cup {wpass} ELSE wprocessed
    /\ wpass' = 0
    /\ UNCHANGED <<wlatest, wsaved, wpasses>>
    /\ UNCHANGED NotWeek

WeekInit ==
    /\ CoreIdle
    /\ NormIdle
    /\ SyncIdle
    /\ ResumeIdle
    /\ PathIdle
    /\ MonIdle
    /\ RetryIdle
    /\ MbIdle
    /\ RecIdle
    /\ StatIdle
    /\ DedupIdle
    /\ FindIdle
    /\ DebugIdle
    /\ PlIdle
    /\ CntIdle
    /\ MpIdle
    /\ TagIdle
    /\ LoopIdle
    /\ wlatest = 1
    /\ wsaved = 0
    /\ wpass = 0
    /\ wprocessed = {}
    /\ wpasses = 0

WeekNext ==
    \/ NewWeek
    \/ \E bypass \in BOOLEAN : WeeklyPassStarts(bypass)
    \/ \E completed \in BOOLEAN : WeeklyPassEnds(completed)

SpecWeek == WeekInit /\ [][WeekNext]_vars

(* C38: while no pass is running, the week the history file names as seen is
   a week whose tracks were processed; so a week whose pass was aborted is
   still detected as changed by the next run. *)
C38_SeenOnlyAfterProcessed ==
    (wpass = 0 /\ wsaved # 0) => wsaved \in wprocessed

(* C39: when _update_playlist returns False, the playlist's membership is the
   same as before the call: a failure of the add step after the removal of
   all songs leaves the playlist neither emptied nor partially filled. *)
C39_FailedUpdateLeavesMembership ==
    [][(plast'.op = "update" /\ ~plast'.ok) => ppl' = ppl]_vars

(***************************************************************************)
(* The per-user ledger file: utils.get_user_history_path                   *)
(***************************************************************************)

\* Bound: the characters of a username.
MaxNameLen == 2

NotPath == <<coreVars, normVars, syncVars, resumeVars, monVars, retryVars, mbVars, recVars, statVars, dedupVars, findVars, debugVars, plVars, cntVars, mpVars, tagVars, loopVars, weekVars>>

\* the characters usernames are made of: a letter, both separators and the
\* character the separators are replaced by
UserChars == {"a", "/", "\\", "_"}
Usernames == UNION {[1..n -> UserChars] : n \in 1..MaxNameLen}

\* username.replace('/', '_').replace('\\', '_')
SafeUser(username) ==
    [i \in 1..Len(username) |->
        IF username[i] \in {"/", "\\"} THEN "_" ELSE username[i]]

\* os.path.join(base_dir, f'download_history_{safe_user}.json'); the
\* directory and the fixed parts of the file name are one element each
get_user_history_path(username) ==
    <<"/app/data", "/", "download_history_">> \o SafeUser(username) \o <<".json">>

\* two accounts open their ledgers
ResolvePaths ==
    /\ hpaths = <<>>
    /\ hpaths' = <<get_user_history_path(hnames[1]), get_user_history_path(hnames[2])>>
    /\ UNCHANGED hnames
    /\ UNCHANGED NotPath

PathInit ==
    /\ CoreIdle
    /\ NormIdle
    /\ SyncIdle
    /\ ResumeIdle
    /\ MonIdle
    /\ RetryIdle
    /\ MbIdle
    /\ RecIdle
    /\ StatIdle
    /\ DedupIdle
    /\ FindIdle
    /\ DebugIdle
    /\ PlIdle
    /\ CntIdle
    /\ MpIdle
    /\ TagIdle
    /\ LoopIdle
    /\ WeekIdle
    /\ hnames \in Usernames \X Usernames
    /\ hpaths = <<>>

PathNext == ResolvePaths

SpecPath == PathInit /\ [][PathNext]_vars

(* C40: get_user_history_path maps distinct usernames to distinct ledger
   file paths, also usernames that hold '/', '\' or '_': two different users
   never share one ledger file. *)
C40_DistinctUsersDistinctLedgers ==
    (hpaths # <<>> /\ hnames[1] # hnames[2]) => hpaths[1] # hpaths[2]

=============================================================================
